---------------------------- MODULE Spec2Model ----------------------------
(***************************************************************************)
(* A model of juff's configuration engine (src/juff/config.py): config    *)
(* discovery, extend-chain resolution, the accessor layer and the rule /  *)
(* file decision methods.                                                 *)
(*                                                                         *)
(* Strings are TLA+ strings (TLC evaluates Len, SubSeq and \o on them).   *)
(* A TOML value is a tagged record [t |-> tag, v |-> payload] with tag    *)
(* "int", "str", "list" or "table"; a table (a Python dict) is a function *)
(* from its keys to tagged values.                                        *)
(***************************************************************************)
EXTENDS Integers, Sequences, FiniteSets, TLC

VARIABLES
    fs,            \* the file system: existing path -> [ok, data]
    cwd,           \* Path.cwd()
    config_path,   \* JuffConfig.config_path
    config,        \* JuffConfig._config
    project_root,  \* JuffConfig._project_root
    pc,            \* where load() stands
    stack,         \* the frames below the running one: load(), _resolve_extend()s
    seen_paths,    \* the seen_paths set shared by one resolution
    arg,           \* the config handed to / returned by _resolve_extend
    reads,         \* the files opened and parsed by the running load()
    call,          \* the last accessor / function call and its arguments
    ret            \* what that call returned

vars == <<fs, cwd, config_path, config, project_root, pc, stack, seen_paths,
          arg, reads, call, ret>>

loadVars == <<fs, cwd, config_path, config, project_root, pc, stack,
              seen_paths, arg, reads>>

(***************************************************************************)
(* Python str methods.                                                     *)
(***************************************************************************)
Char(s, i) == SubSeq(s, i, i)

Drop(s, n) == SubSeq(s, n + 1, Len(s))

\* str.startswith
StartsWith(s, p) == Len(p) <= Len(s) /\ SubSeq(s, 1, Len(p)) = p

\* the index (from 1) of the first occurrence of sub in s, 0 when there is none
RECURSIVE FindFrom(_, _, _)
FindFrom(s, sub, i) ==
    IF i + Len(sub) - 1 > Len(s) THEN 0
    ELSE IF SubSeq(s, i, i + Len(sub) - 1) = sub THEN i
    ELSE FindFrom(s, sub, i + 1)

\* the `in` operator on two strings
Contains(s, sub) == FindFrom(s, sub, 1) > 0

\* str.replace(old, new), old not empty
RECURSIVE Replace(_, _, _)
Replace(s, old, new) ==
    LET i == FindFrom(s, old, 1) IN
    IF i = 0 THEN s
    ELSE SubSeq(s, 1, i - 1) \o new \o Replace(Drop(s, i - 1 + Len(old)), old, new)

\* str.split(sep), sep not empty
RECURSIVE Split(_, _)
Split(s, sep) ==
    LET i == FindFrom(s, sep, 1) IN
    IF i = 0 THEN <<s>>
    ELSE <<SubSeq(s, 1, i - 1)>> \o Split(Drop(s, i - 1 + Len(sep)), sep)

\* sep.join(parts)
RECURSIVE Join(_, _)
Join(parts, sep) ==
    IF Len(parts) = 0 THEN ""
    ELSE IF Len(parts) = 1 THEN parts[1]
    ELSE parts[1] \o sep \o Join(Tail(parts), sep)

\* str.lstrip(c) and str.rstrip(c) for a single character c
RECURSIVE LStrip(_, _)
LStrip(s, c) == IF s # "" /\ Char(s, 1) = c THEN LStrip(Drop(s, 1), c) ELSE s

RECURSIVE RStrip(_, _)
RStrip(s, c) ==
    IF s # "" /\ Char(s, Len(s)) = c THEN RStrip(SubSeq(s, 1, Len(s) - 1), c) ELSE s

(***************************************************************************)
(* fnmatch.fnmatch on POSIX (normcase is the identity): * matches any run  *)
(* of characters, / included, ? matches one character, anything else      *)
(* itself.  Bracket classes are not modelled: no modelled pattern holds [. *)
(***************************************************************************)
RECURSIVE fnmatch(_, _)
fnmatch(name, pat) ==
    IF pat = "" THEN name = ""
    ELSE LET c == Char(pat, 1)
             rest == Drop(pat, 1)
         IN IF c = "*"
            THEN fnmatch(name, rest) \/ (name # "" /\ fnmatch(Drop(name, 1), pat))
            ELSE IF c = "?"
            THEN name # "" /\ fnmatch(Drop(name, 1), rest)
            ELSE name # "" /\ Char(name, 1) = c /\ fnmatch(Drop(name, 1), rest)

(***************************************************************************)
(* JuffConfig._matches_pattern                                             *)
(***************************************************************************)
\* matches_loop testing the suffix alone, without the trailing * the code adds
RECURSIVE matches_loop_exact(_, _, _)
matches_loop_exact(path_parts, suffix, i) ==
    IF i >= Len(path_parts) THEN FALSE
    ELSE LET remaining == Join(SubSeq(path_parts, i + 1, Len(path_parts)), "/") IN
         IF fnmatch(remaining, suffix) \/ fnmatch(remaining, "*/" \o suffix)
         THEN TRUE
         ELSE matches_loop_exact(path_parts, suffix, i + 1)

\* the body of `for i in range(len(path_parts))`, from index i (0-based) on
RECURSIVE matches_loop(_, _, _)
matches_loop(path_parts, suffix, i) ==
    IF i >= Len(path_parts) THEN FALSE
    ELSE LET remaining == Join(SubSeq(path_parts, i + 1, Len(path_parts)), "/") IN
         IF fnmatch(remaining, suffix \o "*") \/ fnmatch(remaining, "*/" \o suffix \o "*")
         THEN TRUE
         ELSE IF fnmatch(remaining, suffix) THEN TRUE
         ELSE matches_loop(path_parts, suffix, i + 1)

matches_pattern(file_path0, pattern0) ==
    LET file_path == Replace(file_path0, "\\", "/")
        pattern == Replace(pattern0, "\\", "/")
    IN IF Contains(pattern, "**")
       THEN LET parts == Split(pattern, "**") IN
            IF Len(parts) = 2 /\ parts[2] = "" THEN TRUE
            ELSE IF Len(parts) = 2
                    /\ matches_loop(Split(file_path, "/"), LStrip(parts[2], "/"), 0)
            THEN TRUE
            ELSE fnmatch(file_path, Replace(pattern, "**", "*"))
       ELSE fnmatch(file_path, pattern)

(***************************************************************************)
(* Values and sentinels.                                                   *)
(***************************************************************************)
None == [t |-> "None", v |-> 0]

Bool(b) == [t |-> "bool", v |-> b]

Num(n) == [t |-> "int", v |-> n]

List(l) == [t |-> "list", v |-> l]

Table(d) == [t |-> "table", v |-> d]

Str(s) == [t |-> "str", v |-> s]

EmptyDict == <<>>

\* dict.get(key, default) on the payloads
Get(d, key, default) == IF key \in DOMAIN d THEN d[key] ELSE default

(***************************************************************************)
(* Module constants of src/juff/config.py.                                 *)
(***************************************************************************)
\* the keys of RULE_PREFIX_MAPPING, in the order of the dict literal
RULE_PREFIXES ==
    <<"E", "W", "F", "C90", "A", "ANN", "ARG", "ASYNC", "B", "BLE", "C4",
      "COM", "CPY", "D", "DJ", "DTZ", "EM", "ERA", "EXE", "FA", "FBT",
      "FIX", "G", "ICN", "INP", "INT", "ISC", "LOG", "N", "PD", "PIE", "PT",
      "PTH", "PYI", "Q", "RET", "RSE", "S", "SIM", "SLF", "SLOT", "T10",
      "T20", "TCH", "TD", "TID", "TRY", "YTT", "DOC", "FURB", "PERF", "PLC",
      "PLE", "PLR", "PLW", "I", "UP", "FLY", "format", "AIR", "FAST", "NPY",
      "PGH", "RUF">>

\* RULE_PREFIX_MAPPING[prefix]
RULE_PREFIX_MAPPING(prefix) ==
    CASE prefix = "DOC" -> "pydoclint"
      [] prefix = "FURB" -> "refurb"
      [] prefix = "PERF" -> "perflint"
      [] prefix \in {"PLC", "PLE", "PLR", "PLW"} -> "pylint"
      [] prefix = "I" -> "isort"
      [] prefix = "UP" -> "pyupgrade"
      [] prefix = "FLY" -> "flynt"
      [] prefix = "format" -> "black"
      [] prefix \in {"AIR", "FAST", "NPY", "PGH", "RUF"} -> "ruff"
      [] OTHER -> "flake8"

DEFAULT_EXCLUDE ==
    <<".bzr", ".direnv", ".eggs", ".git", ".git-rewrite", ".hg", ".mypy_cache",
      ".nox", ".pants.d", ".pytype", ".ruff_cache", ".juff_cache", ".svn",
      ".tox", ".venv", "__pycache__", "__pypackages__", "_build", "buck-out",
      "dist", "node_modules", "venv">>

(***************************************************************************)
(* The accessors of JuffConfig, as functions of the merged dict d.         *)
(***************************************************************************)
Range(seq) == {seq[i] : i \in 1..Len(seq)}

\* the keys of a dict in the order the model iterates them (a TOML table keeps
\* the order of the file, which the function model of a dict does not; no
\* modelled result depends on it beyond the order of a returned list)
RECURSIVE KeysInOrder(_)
KeysInOrder(keys) ==
    IF keys = {} THEN <<>>
    ELSE LET k == CHOOSE x \in keys : TRUE IN <<k>> \o KeysInOrder(keys \ {k})

get_lint_config(d) == Get(d, "lint", Table(EmptyDict)).v

get_format_config(d) == Get(d, "format", Table(EmptyDict)).v

\* get_exclude_patterns adding the lint and the format section's excludes
\* in every mode
get_exclude_patterns_all_sections(d, mode) ==
    Get(d, "exclude", List(DEFAULT_EXCLUDE)).v
    \o Get(d, "extend-exclude", List(<<>>)).v
    \o Get(get_lint_config(d), "exclude", List(<<>>)).v
    \o Get(get_format_config(d), "exclude", List(<<>>)).v

\* get_exclude_patterns with the built-in defaults kept beside a configured exclude
get_exclude_patterns_keeping_defaults(d, mode) ==
    LET patterns == DEFAULT_EXCLUDE \o Get(d, "exclude", List(<<>>)).v
                    \o Get(d, "extend-exclude", List(<<>>)).v
    IN IF mode = "lint"
       THEN patterns \o Get(get_lint_config(d), "exclude", List(<<>>)).v
       ELSE IF mode = "format"
       THEN patterns \o Get(get_format_config(d), "exclude", List(<<>>)).v
       ELSE patterns

get_exclude_patterns(d, mode) ==
    LET patterns == Get(d, "exclude", List(DEFAULT_EXCLUDE)).v
                    \o Get(d, "extend-exclude", List(<<>>)).v
    IN IF mode = "lint"
       THEN patterns \o Get(get_lint_config(d), "exclude", List(<<>>)).v
       ELSE IF mode = "format"
       THEN patterns \o Get(get_format_config(d), "exclude", List(<<>>)).v
       ELSE patterns

\* get_selected_rules in which extend-select replaces the default E, F, W
get_selected_rules_replacing_default(d) ==
    LET lint_config == get_lint_config(d)
        extend == Get(lint_config, "extend-select", List(<<>>)).v
    IN IF "select" \in DOMAIN lint_config
       THEN lint_config["select"].v \o extend
       ELSE IF "extend-select" \in DOMAIN lint_config THEN extend
       ELSE <<"E", "F", "W">>

get_selected_rules(d) ==
    LET lint_config == get_lint_config(d)
        rules == IF "select" \in DOMAIN lint_config
                 THEN lint_config["select"].v
                 ELSE <<"E", "F", "W">>
    IN rules \o Get(lint_config, "extend-select", List(<<>>)).v

get_ignored_rules(d) ==
    LET lint_config == get_lint_config(d) IN
    Get(lint_config, "ignore", List(<<>>)).v
    \o Get(lint_config, "extend-ignore", List(<<>>)).v

get_line_length(d) == Get(d, "line-length", Num(88))

get_target_version(d) == Get(d, "target-version", Str("py311"))

get_fixable_rules(d) ==
    LET lint_config == get_lint_config(d) IN
    Get(lint_config, "fixable", List(<<"ALL">>)).v
    \o Get(lint_config, "extend-fixable", List(<<>>)).v

get_unfixable_rules(d) ==
    LET lint_config == get_lint_config(d) IN
    Get(lint_config, "unfixable", List(<<>>)).v
    \o Get(lint_config, "extend-unfixable", List(<<>>)).v

\* the dict get_per_file_ignores returns
get_per_file_ignores(d) ==
    LET lint_config == get_lint_config(d)
        base == Get(lint_config, "per-file-ignores", Table(EmptyDict)).v
        extend == Get(lint_config, "extend-per-file-ignores", Table(EmptyDict)).v
    IN [pattern \in DOMAIN base \cup DOMAIN extend |->
          IF pattern \in DOMAIN base /\ pattern \in DOMAIN extend
          THEN List(base[pattern].v \o extend[pattern].v)
          ELSE IF pattern \in DOMAIN base THEN base[pattern]
          ELSE extend[pattern]]

\* the merged dict after get_per_file_ignores ran: dict(...) copies the table
\* one level deep, so `ignores[pattern].extend(rules)` extends the list the
\* stored per-file-ignores table holds
after_get_per_file_ignores(d) ==
    LET lint_config == get_lint_config(d)
        extend == Get(lint_config, "extend-per-file-ignores", Table(EmptyDict)).v
    IN IF "lint" \in DOMAIN d /\ "per-file-ignores" \in DOMAIN lint_config
       THEN LET base == lint_config["per-file-ignores"].v
                grown == [pattern \in DOMAIN base |->
                            IF pattern \in DOMAIN extend
                            THEN List(base[pattern].v \o extend[pattern].v)
                            ELSE base[pattern]]
            IN [d EXCEPT !["lint"] =
                  Table([lint_config EXCEPT !["per-file-ignores"] = Table(grown)])]
       ELSE d

\* the loop of get_ignored_rules_for_file over per_file_ignores.items()
RECURSIVE matching_rules(_, _, _)
matching_rules(per_file_ignores, patterns, file_str) ==
    IF Len(patterns) = 0 THEN <<>>
    ELSE (IF matches_pattern(file_str, Head(patterns))
          THEN per_file_ignores[Head(patterns)].v
          ELSE <<>>)
         \o matching_rules(per_file_ignores, Tail(patterns), file_str)

get_ignored_rules_for_file(d, file_path) ==
    LET per_file_ignores == get_per_file_ignores(d)
        global_ignores == get_ignored_rules(after_get_per_file_ignores(d))
    IN global_ignores
       \o matching_rules(per_file_ignores, KeysInOrder(DOMAIN per_file_ignores),
                         file_path)

\* `for x in entries: if rule.startswith(x)`
AnyPrefixOf(rule, entries) ==
    \E i \in 1..Len(entries) : StartsWith(rule, entries[i])

\* is_rule_selected letting ALL in select win over the ignored rules
is_rule_selected_all_first(d, rule) ==
    LET selected == get_selected_rules(d)
        ignored == get_ignored_rules(d)
    IN IF "ALL" \in Range(selected) THEN TRUE
       ELSE IF rule \in Range(ignored) THEN FALSE
       ELSE IF AnyPrefixOf(rule, ignored) THEN FALSE
       ELSE \E i \in 1..Len(selected) :
               rule = selected[i] \/ StartsWith(rule, selected[i])

is_rule_selected(d, rule) ==
    LET selected == get_selected_rules(d)
        ignored == get_ignored_rules(d)
    IN IF rule \in Range(ignored) THEN FALSE
       ELSE IF AnyPrefixOf(rule, ignored) THEN FALSE
       ELSE \E i \in 1..Len(selected) :
               selected[i] = "ALL" \/ rule = selected[i]
               \/ StartsWith(rule, selected[i])

\* the first catalog prefix that matches, instead of the longest
RECURSIVE first_match_from(_, _, _)
first_match_from(rule, i, best_match) ==
    IF i > Len(RULE_PREFIXES) THEN best_match
    ELSE LET prefix == RULE_PREFIXES[i] IN
         IF (rule = prefix \/ StartsWith(rule, prefix)) /\ best_match = ""
         THEN first_match_from(rule, i + 1, prefix)
         ELSE first_match_from(rule, i + 1, best_match)

\* the inner loop of get_tools_for_rules over RULE_PREFIX_MAPPING, from the
\* i-th prefix on; best_match is "" for None (no catalog prefix is empty)
RECURSIVE best_match_from(_, _, _)
best_match_from(rule, i, best_match) ==
    IF i > Len(RULE_PREFIXES) THEN best_match
    ELSE LET prefix == RULE_PREFIXES[i] IN
         IF (rule = prefix \/ StartsWith(rule, prefix))
            /\ (best_match = "" \/ Len(prefix) > Len(best_match))
         THEN best_match_from(rule, i + 1, prefix)
         ELSE best_match_from(rule, i + 1, best_match)

\* the outer loop of get_tools_for_rules, from the i-th selected rule on
RECURSIVE tools_from(_, _, _)
tools_from(selected, i, tools) ==
    IF i > Len(selected) THEN tools
    ELSE IF selected[i] = "ALL"
    THEN tools \cup {RULE_PREFIX_MAPPING(RULE_PREFIXES[j]) : j \in 1..Len(RULE_PREFIXES)}
    ELSE LET best_match == best_match_from(selected[i], 1, "") IN
         tools_from(selected, i + 1,
                    IF best_match # ""
                    THEN tools \cup {RULE_PREFIX_MAPPING(best_match)}
                    ELSE tools)

get_tools_for_rules(d) == tools_from(get_selected_rules(d), 1, {})

\* the loop of is_file_excluded, from the i-th pattern on
RECURSIVE excluded_from(_, _, _)
excluded_from(exclude_patterns, file_str, i) ==
    IF i > Len(exclude_patterns) THEN FALSE
    ELSE IF matches_pattern(file_str, exclude_patterns[i]) THEN TRUE
    ELSE IF Contains(file_str, RStrip(exclude_patterns[i], "/")) THEN TRUE
    ELSE excluded_from(exclude_patterns, file_str, i + 1)

is_file_excluded(d, file_path, mode) ==
    excluded_from(get_exclude_patterns(d, mode), Replace(file_path, "\\", "/"), 1)

\* is_rule_ignored_for_file without the ALL entry
is_rule_ignored_for_file_no_all(d, rule, file_path) ==
    LET ignored == get_ignored_rules_for_file(d, file_path) IN
    \E i \in 1..Len(ignored) : rule = ignored[i] \/ StartsWith(rule, ignored[i])

is_rule_ignored_for_file(d, rule, file_path) ==
    LET ignored == get_ignored_rules_for_file(d, file_path) IN
    \E i \in 1..Len(ignored) :
        ignored[i] = "ALL" \/ rule = ignored[i] \/ StartsWith(rule, ignored[i])

\* is_rule_fixable letting ALL in fixable win over the unfixable rules
is_rule_fixable_all_first(d, rule) ==
    LET fixable == get_fixable_rules(d)
        unfixable == get_unfixable_rules(d)
    IN IF "ALL" \in Range(fixable) THEN TRUE
       ELSE IF rule \in Range(unfixable) THEN FALSE
       ELSE IF AnyPrefixOf(rule, unfixable) THEN FALSE
       ELSE \E i \in 1..Len(fixable) :
               rule = fixable[i] \/ StartsWith(rule, fixable[i])

is_rule_fixable(d, rule) ==
    LET fixable == get_fixable_rules(d)
        unfixable == get_unfixable_rules(d)
    IN IF rule \in Range(unfixable) THEN FALSE
       ELSE IF AnyPrefixOf(rule, unfixable) THEN FALSE
       ELSE \E i \in 1..Len(fixable) :
               fixable[i] = "ALL" \/ rule = fixable[i]
               \/ StartsWith(rule, fixable[i])

(***************************************************************************)
(* Flake8Tool: matching of a rule prefix against an error code.            *)
(***************************************************************************)
Letters ==
    {"A", "B", "C", "D", "E", "F", "G", "H", "I", "J", "K", "L", "M", "N",
     "O", "P", "Q", "R", "S", "T", "U", "V", "W", "X", "Y", "Z"}

Digits == {"0", "1", "2", "3", "4", "5", "6", "7", "8", "9"}

\* str.isalpha of a one-character string
isalpha(c) == c \in Letters

\* str.isdigit of a one-character string
isdigit(c) == c \in Digits

\* the single-letter guard left out: plain startswith
prefix_matches_code_startswith(prefix, code) ==
    code = prefix \/ StartsWith(code, prefix)

prefix_matches_code(prefix, code) ==
    IF code = prefix THEN TRUE
    ELSE IF ~StartsWith(code, prefix) THEN FALSE
    ELSE IF Len(prefix) = 1 /\ isalpha(prefix)
    THEN IF Len(code) > 1
         THEN IF ~isdigit(Char(code, 2)) THEN FALSE
              ELSE IF prefix = "E" /\ StartsWith(code, "E8") THEN FALSE
              ELSE TRUE
         ELSE FALSE
    ELSE TRUE

\* the two loops of _code_matches_selection
code_matches_selection(code, selected, ignored) ==
    IF \E i \in 1..Len(ignored) : prefix_matches_code(ignored[i], code)
    THEN FALSE
    ELSE \E i \in 1..Len(selected) :
            selected[i] = "ALL" \/ prefix_matches_code(selected[i], code)

(***************************************************************************)
(* example_ruff_parser: the target version derived from requires-python.   *)
(***************************************************************************)
DigitChars == <<"0", "1", "2", "3", "4", "5", "6", "7", "8", "9">>

\* int(text) of a run of decimal digits
RECURSIVE int_of(_)
int_of(text) ==
    IF text = "" THEN 0
    ELSE 10 * int_of(SubSeq(text, 1, Len(text) - 1))
         + (CHOOSE d \in 0..9 : DigitChars[d + 1] = Char(text, Len(text)))

\* the text an f-string writes for a natural number
RECURSIVE str_of(_)
str_of(n) ==
    IF n < 10 THEN DigitChars[n + 1]
    ELSE str_of(n \div 10) \o DigitChars[(n % 10) + 1]

\* str.strip() of a text whose only whitespace is the space
strip(s) == LStrip(RStrip(s, " "), " ")

\* the characters of the class [><=~!]
OpChars == {">", "<", "=", "~", "!"}

\* the number of characters of s from index i on that lie in chars
RECURSIVE run_length(_, _, _)
run_length(s, i, chars) ==
    IF i <= Len(s) /\ Char(s, i) \in chars
    THEN 1 + run_length(s, i + 1, chars)
    ELSE 0

\* the length of the match of [0-9]+(?:\.[0-9]+)* at index i of s, 0 for none
RECURSIVE version_length(_, _)
version_length(s, i) ==
    LET digits == run_length(s, i, Digits) IN
    IF digits = 0 THEN 0
    ELSE LET j == i + digits IN
         IF j <= Len(s) /\ Char(s, j) = "." /\ run_length(s, j + 1, Digits) > 0
         THEN digits + 1 + version_length(s, j + 1)
         ELSE digits

\* re.match(r"([><=~!]{1,2})\s*([0-9]+(?:\.[0-9]+)*)", part): after two
\* operator characters no shorter operator can match, the second one being
\* neither whitespace nor a digit
re_match(part) ==
    LET ops == IF run_length(part, 1, OpChars) > 2 THEN 2
               ELSE run_length(part, 1, OpChars)
        start == 1 + ops + run_length(part, 1 + ops, {" "})
        length == version_length(part, start)
    IN IF ops = 0 \/ length = 0
       THEN [matched |-> FALSE, op |-> "", version_text |-> ""]
       ELSE [matched |-> TRUE, op |-> SubSeq(part, 1, ops),
             version_text |-> SubSeq(part, start, start + length - 1)]

\* the for loop over spec.split(","), from the i-th part on
RECURSIVE versions_from(_, _)
versions_from(raw_parts, i) ==
    IF i > Len(raw_parts) THEN <<>>
    ELSE LET part == strip(raw_parts[i])
             match == re_match(part)
             components == Split(match.version_text, ".")
             rest == versions_from(raw_parts, i + 1)
         IN IF part = "" THEN rest
            ELSE IF ~match.matched THEN rest
            ELSE IF match.op \notin {"=", "==", ">=", ">", "~="} THEN rest
            ELSE IF Len(components) < 2 THEN rest
            ELSE <<<<int_of(components[1]), int_of(components[2])>>>> \o rest

\* the first pair taken instead of the smallest
first_version(versions) == versions[1]

\* min(versions) on (major, minor) tuples
min_version(versions) ==
    CHOOSE v \in Range(versions) :
        \A w \in Range(versions) :
            ~(w[1] < v[1] \/ (w[1] = v[1] /\ w[2] < v[2]))

\* spec is None or Str(text)
derive_target_version_from_requires_python(spec) ==
    IF spec.t = "None" THEN None
    ELSE IF spec.v = "" THEN None
    ELSE LET versions == versions_from(Split(spec.v, ","), 1) IN
         IF Len(versions) = 0 THEN None
         ELSE LET lowest == min_version(versions) IN
              Str("py" \o str_of(lowest[1]) \o str_of(lowest[2]))

\* `not value` of None or a string
falsy(value) == value.t = "None" \/ (value.t = "str" /\ value.v = "")

\* the RuffConfig _normalize_ruff_table builds
normalize_ruff_table(table, path, requires_python, allow_target_fallback) ==
    LET lint_table == IF "lint" \in DOMAIN table /\ table["lint"].t = "table"
                      THEN table["lint"].v ELSE EmptyDict
        selection == [select |-> Get(lint_table, "select", None),
                      ignore |-> Get(lint_table, "ignore", List(<<>>)),
                      extend_select |-> Get(lint_table, "extend-select", List(<<>>))]
        target_version == Get(table, "target-version", None)
    IN [path |-> path,
        extend |-> Get(table, "extend", None),
        line_length |-> Get(table, "line-length", None),
        target_version |->
            IF falsy(target_version) /\ allow_target_fallback
            THEN derive_target_version_from_requires_python(requires_python)
            ELSE target_version,
        exclude |-> Get(table, "exclude", None),
        extend_exclude |-> Get(table, "extend-exclude", List(<<>>)),
        rule_selections |-> <<selection>>,
        per_file_ignores |-> Get(lint_table, "per-file-ignores", Table(EmptyDict))]

(***************************************************************************)
(* Paths and files.  A directory is its depth below the filesystem root   *)
(* (0 is the root, the parent of d is d - 1); a path is <<dir, name>>.    *)
(* fs maps every existing file to [ok, data]: ok tells whether tomllib    *)
(* parses it, data is the parsed document.  The string of an extend key   *)
(* is the record [abs, dir, name]: an absolute path of directory dir, or  *)
(* a path relative by dir levels (-1 is "../name", 1 is "sub/name"); the  *)
(* empty string has the name "".                                          *)
(***************************************************************************)
Path(p) == [t |-> "path", v |-> p]

EmptyStr == [abs |-> FALSE, dir |-> 0, name |-> ""]

CONFIG_FILES ==
    <<"juff.toml", ".juff.toml", "ruff.toml", ".ruff.toml", "pyproject.toml">>

\* Path.parent: the root is its own parent
Parent(dir) == IF dir = 0 THEN 0 ELSE dir - 1

\* Path.exists()
Exists(files, p) == p \in DOMAIN files

\* the [tool.juff] / [tool.ruff] test left out: every existing
\* pyproject.toml is returned
accepted_any(files, config_file) == TRUE

\* the except branch taken for an acceptance: a pyproject.toml that does
\* not parse is returned
accepted_unparsed(files, config_file) ==
    IF config_file[2] = "pyproject.toml"
    THEN \/ ~files[config_file].ok
         \/ LET tool == Get(files[config_file].data, "tool", Table(EmptyDict))
            IN tool.t = "table" /\ ("juff" \in DOMAIN tool.v \/ "ruff" \in DOMAIN tool.v)
    ELSE TRUE

\* whether find_config_file returns the existing candidate config_file
accepted(files, config_file) ==
    IF config_file[2] = "pyproject.toml"
    THEN /\ files[config_file].ok
         /\ LET tool == Get(files[config_file].data, "tool", Table(EmptyDict))
            IN tool.t = "table" /\ ("juff" \in DOMAIN tool.v \/ "ruff" \in DOMAIN tool.v)
    ELSE TRUE

\* the for loop over CONFIG_FILES in directory current, from the i-th name on
RECURSIVE find_in_dir(_, _, _)
find_in_dir(files, current, i) ==
    IF i > Len(CONFIG_FILES) THEN None
    ELSE LET config_file == <<current, CONFIG_FILES[i]>> IN
         IF Exists(files, config_file) /\ accepted(files, config_file)
         THEN Path(config_file)
         ELSE find_in_dir(files, current, i + 1)

\* the while loop of find_config_file
RECURSIVE find_upwards(_, _)
find_upwards(files, current) ==
    LET found == find_in_dir(files, current, 1) IN
    IF found.t # "None" THEN found
    ELSE IF Parent(current) = current THEN None
    ELSE find_upwards(files, Parent(current))

\* an explicit config path that does not exist falls back to the upward
\* search
find_config_file_falling_back(files, explicit, start_dir, working_dir) ==
    IF explicit.t # "None" /\ Exists(files, explicit.v) THEN explicit
    ELSE find_upwards(files, IF start_dir.t = "None" THEN working_dir
                             ELSE start_dir.v)

\* start_dir is None or Num(dir)
find_config_file(files, explicit, start_dir, working_dir) ==
    IF explicit.t # "None"
    THEN IF Exists(files, explicit.v) THEN explicit ELSE None
    ELSE find_upwards(files, IF start_dir.t = "None" THEN working_dir
                             ELSE start_dir.v)

\* the document of a file: [tool.juff], else [tool.ruff], else {} for
\* pyproject.toml, and the whole file otherwise
config_of(name, data) ==
    IF name = "pyproject.toml"
    THEN LET tool == Get(data, "tool", Table(EmptyDict)).v
         IN Get(tool, "juff", Get(tool, "ruff", Table(EmptyDict))).v
    ELSE data

\* `not extend_path` on config.get("extend")
no_extend(cfg) == "extend" \notin DOMAIN cfg \/ cfg["extend"].v.name = ""

\* Path(extend_path), joined to the project root unless absolute, resolved
\* (".." at the root stays at the root)
extend_target(cfg, root) ==
    LET s == cfg["extend"].v
        dir == IF s.abs THEN s.dir ELSE root + s.dir
    IN <<IF dir < 0 THEN 0 ELSE dir, s.name>>

\* the cycle test left out: no path counts as seen
never_seen(extend_path, seen) == FALSE

\* `extend_path in seen_paths`
already_seen(extend_path, seen) == extend_path \in seen

\* the merge without the recursion into tables: the child's table replaces
\* the parent's
merge_configs_shallow(parent, child) ==
    LET keys == DOMAIN child \ {"extend"}
    IN [key \in DOMAIN parent \cup keys |->
           IF key \in keys THEN child[key] ELSE parent[key]]

RECURSIVE merge_configs(_, _)
merge_configs(parent, child) ==
    LET keys == DOMAIN child \ {"extend"}
    IN [key \in DOMAIN parent \cup keys |->
           IF key \notin keys THEN parent[key]
           ELSE IF key \in DOMAIN parent /\ parent[key].t = "table"
                   /\ child[key].t = "table"
           THEN Table(merge_configs(parent[key].v, child[key].v))
           ELSE child[key]]

(***************************************************************************)
(* The parts of the state a specification does not use.                    *)
(***************************************************************************)
LoadIdle ==
    /\ fs = EmptyDict
    /\ cwd = 0
    /\ config_path = None
    /\ config = None
    /\ project_root = None
    /\ pc = "new"
    /\ stack = <<>>
    /\ seen_paths = {}
    /\ arg = None
    /\ reads = <<>>

(***************************************************************************)
(* SpecFind: find_config_file on a JuffConfig fresh from __init__, over   *)
(* directory trees whose directories hold one of the Listings.            *)
(***************************************************************************)
\* the deepest directory of the tree
MaxDepth == 2

Dirs == 0..MaxDepth

File(ok, data) == [ok |-> ok, data |-> data]

\* a pyproject.toml with the one table [tool.<name>]
Pyproject(name) == File(TRUE, "tool" :> Table(name :> Table(EmptyDict)))

\* what a directory may hold: name -> file
Listings ==
    << EmptyDict,
       "juff.toml" :> File(FALSE, EmptyDict),
       ".ruff.toml" :> File(TRUE, EmptyDict),
       "pyproject.toml" :> File(FALSE, EmptyDict),
       "pyproject.toml" :> File(TRUE, "project" :> Table(EmptyDict)),
       "pyproject.toml" :> Pyproject("black"),
       "pyproject.toml" :> Pyproject("juff"),
       ("pyproject.toml" :> Pyproject("ruff")) @@ ("setup.cfg" :> File(FALSE, EmptyDict)),
       (".juff.toml" :> File(TRUE, EmptyDict)) @@ ("ruff.toml" :> File(TRUE, EmptyDict)),
       ("ruff.toml" :> File(TRUE, EmptyDict)) @@ ("pyproject.toml" :> Pyproject("juff")) >>

\* the file system in which directory d holds Listings[choice[d]]
Tree(choice) ==
    LET paths == UNION {{<<d, name>> : name \in DOMAIN Listings[choice[d]]} :
                           d \in DOMAIN choice}
    IN [p \in paths |-> Listings[choice[p[1]]][p[2]]]

\* the state __init__ leaves, in the file system `files`
Constructed(files, working_dir, explicit) ==
    /\ fs = files
    /\ cwd = working_dir
    /\ config_path = explicit
    /\ config = None
    /\ project_root = None
    /\ pc = "new"
    /\ stack = <<>>
    /\ seen_paths = {}
    /\ arg = None
    /\ reads = <<>>
    /\ call = [op |-> "none"]
    /\ ret = None

ExplicitPaths == {None, Path(<<0, "juff.toml">>)}

StartDirs == {None} \cup {Num(d) : d \in Dirs}

InitFind ==
    \E choice \in [Dirs -> 1..Len(Listings)], working_dir \in Dirs,
       explicit \in ExplicitPaths :
        Constructed(Tree(choice), working_dir, explicit)

FindConfigFile ==
    /\ pc = "new"
    /\ \E start_dir \in StartDirs :
        /\ call' = [op |-> "find_config_file", start_dir |-> start_dir]
        /\ ret' = find_config_file(fs, config_path, start_dir, cwd)
    /\ UNCHANGED loadVars

NextFind == FindConfigFile

SpecFind == InitFind /\ [][NextFind]_vars

(***************************************************************************)
(* SpecLoad: load() on a JuffConfig fresh from __init__, step by step     *)
(* through the _resolve_extend recursion.  The file system holds an       *)
(* extend chain of up to MaxFiles files: each file but the last extends   *)
(* the next, and the last one has no extend key, an empty one, one naming *)
(* a missing file or one naming a file of the chain (a cycle), or does    *)
(* not parse.                                                             *)
(***************************************************************************)
\* the number of files of the chain
MaxFiles == 3

\* rule codes, one per file, that tell the files' lists apart
Codes == <<"E", "F", "W", "B", "C", "S">>

\* the documents the i-th file may hold, before its extend key
Shapes(i) ==
    << EmptyDict,
       ("line-length" :> Num(i)) @@ ("select" :> List(<<Codes[i], "X">>)),
       ("select" :> List(<<Codes[i]>>))
           @@ ("lint" :> Table(("a" :> Num(i)) @@ ("c" :> Table("e" :> Num(i))))),
       "lint" :> Table(("a" :> Num(i)) @@ ("b" :> List(<<Codes[i]>>))
                       @@ ("extend" :> Num(i)) @@ ("c" :> Table("d" :> Num(i)))),
       ("line-length" :> Num(i)) @@ ("lint" :> Num(i)) >>

\* where the files of the chain lie, whether JuffConfig is given the first
\* one as config_path, and whether extend strings are absolute
Layouts ==
    << [explicit |-> TRUE, abs |-> FALSE,
        names |-> <<"child.toml", "parent.toml", "pyproject.toml", "base.toml", "extra.toml">>,
        dirs |-> <<1, 0, 1, 2, 0>>],
       [explicit |-> FALSE, abs |-> TRUE,
        names |-> <<"pyproject.toml", "ruff.toml", "shared.toml", ".juff.toml", "x.toml">>,
        dirs |-> <<2, 2, 1, 0, 1>>],
       [explicit |-> FALSE, abs |-> FALSE,
        names |-> <<"pyproject.toml", "base.toml", "pyproject.toml", "juff.toml", "y.toml">>,
        dirs |-> <<1, 0, 0, 2, 2>>] >>

PathOf(layout, k) == <<layout.dirs[k], layout.names[k]>>

\* the extend string by which the k-th file names the path p
Ref(layout, k, p) ==
    IF layout.abs THEN [abs |-> TRUE, dir |-> p[1], name |-> p[2]]
    ELSE [abs |-> FALSE, dir |-> p[1] - layout.dirs[k], name |-> p[2]]

\* how the chain of n files ends
Tails(n) ==
    {[kind |-> kind, to |-> 0] : kind \in {"none", "empty", "missing", "bad"}}
    \cup {[kind |-> "back", to |-> j] : j \in 1..n}

\* the extend key of the k-th of n files
ExtendOf(layout, n, tail, k) ==
    IF k < n THEN "extend" :> Str(Ref(layout, k, PathOf(layout, k + 1)))
    ELSE IF tail.kind = "empty" THEN "extend" :> Str(EmptyStr)
    ELSE IF tail.kind = "missing"
    THEN "extend" :> Str(Ref(layout, k, <<0, "missing.toml">>))
    ELSE IF tail.kind = "back"
    THEN "extend" :> Str(Ref(layout, k, PathOf(layout, tail.to)))
    ELSE EmptyDict

\* a pyproject.toml holding doc: the first file of the chain under
\* [tool.juff] beside a [tool.ruff] table, the other files under [tool.ruff]
InPyproject(k, doc) ==
    IF k = 1
    THEN "tool" :> Table(("juff" :> Table(doc))
                         @@ ("ruff" :> Table("line-length" :> Num(0))))
    ELSE "tool" :> Table("ruff" :> Table(doc))

ChainFile(layout, n, shape, tail, k) ==
    IF k = n /\ tail.kind = "bad" THEN File(FALSE, EmptyDict)
    ELSE LET doc == Shapes(k)[shape[k]] @@ ExtendOf(layout, n, tail, k)
         IN File(TRUE, IF layout.names[k] = "pyproject.toml"
                       THEN InPyproject(k, doc) ELSE doc)

ChainFiles(layout, n, shape, tail) ==
    [p \in {PathOf(layout, k) : k \in 1..n} |->
        LET k == CHOOSE k \in 1..n : PathOf(layout, k) = p
        IN ChainFile(layout, n, shape, tail, k)]

InitLoad ==
    \E l \in 1..Len(Layouts), n \in 0..MaxFiles :
        \E shape \in [1..n -> 1..Len(Shapes(1))], tail \in Tails(n) :
            Constructed(ChainFiles(Layouts[l], n, shape, tail),
                        Layouts[l].dirs[1],
                        IF Layouts[l].explicit THEN Path(PathOf(Layouts[l], 1))
                        ELSE None)

\* no load() call is running
Idle == pc \in {"new", "returned", "raised"}

LoadStartDirs == {None, Num(0)}

LoadCall(start_dir) == [op |-> "load", start_dir |-> start_dir]

\* load(): self._config is set already
LoadCached ==
    /\ Idle
    /\ config.t # "None"
    /\ \E start_dir \in LoadStartDirs : call' = LoadCall(start_dir)
    /\ ret' = config
    /\ pc' = "returned"
    /\ UNCHANGED <<fs, cwd, config_path, config, project_root, stack,
                   seen_paths, arg, reads>>

\* load(): no config file is found
LoadNoFile ==
    /\ Idle
    /\ config.t = "None"
    /\ \E start_dir \in LoadStartDirs :
        /\ find_config_file(fs, config_path, start_dir, cwd).t = "None"
        /\ call' = LoadCall(start_dir)
    /\ config' = Table(EmptyDict)
    /\ project_root' = Num(cwd)
    /\ ret' = Table(EmptyDict)
    /\ pc' = "returned"
    /\ UNCHANGED <<fs, cwd, config_path, stack, seen_paths, arg, reads>>

\* load(): tomllib.load raises on the config file
LoadRaise ==
    /\ Idle
    /\ config.t = "None"
    /\ \E start_dir \in LoadStartDirs :
        LET config_file == find_config_file(fs, config_path, start_dir, cwd) IN
        /\ config_file.t = "path"
        /\ ~fs[config_file.v].ok
        /\ call' = LoadCall(start_dir)
        /\ project_root' = Num(config_file.v[1])
        /\ reads' = <<config_file.v>>
    /\ ret' = None
    /\ pc' = "raised"
    /\ UNCHANGED <<fs, cwd, config_path, config, stack, seen_paths, arg>>

\* load(): the config file has no extend key
LoadPlain ==
    /\ Idle
    /\ config.t = "None"
    /\ \E start_dir \in LoadStartDirs :
        LET config_file == find_config_file(fs, config_path, start_dir, cwd) IN
        /\ config_file.t = "path"
        /\ fs[config_file.v].ok
        /\ LET data == config_of(config_file.v[2], fs[config_file.v].data) IN
            /\ "extend" \notin DOMAIN data
            /\ config' = Table(data)
            /\ ret' = Table(data)
        /\ call' = LoadCall(start_dir)
        /\ project_root' = Num(config_file.v[1])
        /\ reads' = <<config_file.v>>
        /\ config_path' = config_file
    /\ pc' = "returned"
    /\ UNCHANGED <<fs, cwd, stack, seen_paths, arg>>

\* load(): the config file has an extend key, _resolve_extend is entered
LoadExtend ==
    /\ Idle
    /\ config.t = "None"
    /\ \E start_dir \in LoadStartDirs :
        LET config_file == find_config_file(fs, config_path, start_dir, cwd) IN
        /\ config_file.t = "path"
        /\ fs[config_file.v].ok
        /\ LET data == config_of(config_file.v[2], fs[config_file.v].data) IN
            /\ "extend" \in DOMAIN data
            /\ config' = Table(data)
            /\ arg' = Table(data)
        /\ call' = LoadCall(start_dir)
        /\ project_root' = Num(config_file.v[1])
        /\ reads' = <<config_file.v>>
        /\ stack' = <<[fn |-> "load", config_file |-> config_file.v]>>
    /\ seen_paths' = {}
    /\ ret' = None
    /\ pc' = "resolve"
    /\ UNCHANGED <<fs, cwd, config_path>>

\* the exists() test left out: a missing extend target raises
ResolveStopRaising ==
    /\ pc = "resolve"
    /\ IF no_extend(arg.v) THEN TRUE
       ELSE LET extend_path == extend_target(arg.v, project_root.v) IN
            ~Exists(fs, extend_path) \/ already_seen(extend_path, seen_paths)
    /\ pc' = IF no_extend(arg.v) THEN "return"
             ELSE IF ~Exists(fs, extend_target(arg.v, project_root.v))
             THEN "raised" ELSE "return"
    /\ UNCHANGED <<fs, cwd, config_path, config, project_root, stack,
                   seen_paths, arg, reads, call, ret>>

\* _resolve_extend returns its config: the extend is empty, its target is
\* missing or was seen
ResolveStop ==
    /\ pc = "resolve"
    /\ IF no_extend(arg.v) THEN TRUE
       ELSE LET extend_path == extend_target(arg.v, project_root.v) IN
            ~Exists(fs, extend_path) \/ already_seen(extend_path, seen_paths)
    /\ pc' = "return"
    /\ UNCHANGED <<fs, cwd, config_path, config, project_root, stack,
                   seen_paths, arg, reads, call, ret>>

\* the parse error of an extended file swallowed: the file counts as read
\* and the config is returned as it is
ResolveRaiseSwallowed ==
    /\ pc = "resolve"
    /\ ~no_extend(arg.v)
    /\ LET extend_path == extend_target(arg.v, project_root.v) IN
        /\ Exists(fs, extend_path)
        /\ ~already_seen(extend_path, seen_paths)
        /\ ~fs[extend_path].ok
        /\ seen_paths' = seen_paths \cup {extend_path}
        /\ reads' = Append(reads, extend_path)
    /\ pc' = "return"
    /\ UNCHANGED <<fs, cwd, config_path, config, project_root, stack, arg,
                   call, ret>>

\* _resolve_extend: tomllib.load raises on the extended file; the exception
\* leaves load() through every frame
ResolveRaise ==
    /\ pc = "resolve"
    /\ ~no_extend(arg.v)
    /\ LET extend_path == extend_target(arg.v, project_root.v) IN
        /\ Exists(fs, extend_path)
        /\ ~already_seen(extend_path, seen_paths)
        /\ ~fs[extend_path].ok
        /\ seen_paths' = seen_paths \cup {extend_path}
        /\ reads' = Append(reads, extend_path)
    /\ stack' = <<>>
    /\ arg' = None
    /\ pc' = "raised"
    /\ UNCHANGED <<fs, cwd, config_path, config, project_root, call, ret>>

\* _resolve_extend recursing without the switch of the project root to the
\* parent's directory
ResolveDescendKeepingRoot ==
    /\ pc = "resolve"
    /\ ~no_extend(arg.v)
    /\ LET extend_path == extend_target(arg.v, project_root.v) IN
        /\ Exists(fs, extend_path)
        /\ ~already_seen(extend_path, seen_paths)
        /\ fs[extend_path].ok
        /\ seen_paths' = seen_paths \cup {extend_path}
        /\ reads' = Append(reads, extend_path)
        /\ stack' = Append(stack, [fn |-> "_resolve_extend", config |-> arg.v,
                                   old_root |-> project_root])
        /\ arg' = Table(config_of(extend_path[2], fs[extend_path].data))
    /\ pc' = "resolve"
    /\ UNCHANGED <<fs, cwd, config_path, config, project_root, call, ret>>

\* _resolve_extend reads the extended file and recurses into it
ResolveDescend ==
    /\ pc = "resolve"
    /\ ~no_extend(arg.v)
    /\ LET extend_path == extend_target(arg.v, project_root.v) IN
        /\ Exists(fs, extend_path)
        /\ ~already_seen(extend_path, seen_paths)
        /\ fs[extend_path].ok
        /\ seen_paths' = seen_paths \cup {extend_path}
        /\ reads' = Append(reads, extend_path)
        /\ stack' = Append(stack, [fn |-> "_resolve_extend", config |-> arg.v,
                                   old_root |-> project_root])
        /\ project_root' = Num(extend_path[1])
        /\ arg' = Table(config_of(extend_path[2], fs[extend_path].data))
    /\ pc' = "resolve"
    /\ UNCHANGED <<fs, cwd, config_path, config, call, ret>>

\* the recursive call returns: the root is restored and the parent merged
\* under the frame's config
ResolveReturn ==
    /\ pc = "return"
    /\ Len(stack) > 1
    /\ LET frame == stack[Len(stack)] IN
        /\ project_root' = frame.old_root
        /\ arg' = Table(merge_configs(arg.v, frame.config))
    /\ stack' = SubSeq(stack, 1, Len(stack) - 1)
    /\ pc' = "return"
    /\ UNCHANGED <<fs, cwd, config_path, config, seen_paths, reads, call, ret>>

\* the outermost _resolve_extend returns to load()
LoadEnd ==
    /\ pc = "return"
    /\ Len(stack) = 1
    /\ config' = arg
    /\ config_path' = Path(stack[1].config_file)
    /\ ret' = arg
    /\ stack' = <<>>
    /\ arg' = None
    /\ pc' = "returned"
    /\ UNCHANGED <<fs, cwd, project_root, seen_paths, reads, call>>

NextLoad ==
    \/ LoadCached
    \/ LoadNoFile
    \/ LoadRaise
    \/ LoadPlain
    \/ LoadExtend
    \/ ResolveStop
    \/ ResolveRaise
    \/ ResolveDescend
    \/ ResolveReturn
    \/ LoadEnd

\* a load() call that was entered runs on
LoadRuns ==
    WF_vars(ResolveStop \/ ResolveRaise \/ ResolveDescend \/ ResolveReturn
            \/ LoadEnd)

SpecLoad == InitLoad /\ [][NextLoad]_vars /\ LoadRuns

(***************************************************************************)
(* SpecMatch: _matches_pattern applied to bounded paths and patterns.      *)
(***************************************************************************)
MaxPathLen == 4

MaxPatLen == 4

RECURSIVE Strings(_, _)
Strings(alphabet, n) ==
    IF n = 0 THEN {""}
    ELSE LET shorter == Strings(alphabet, n - 1) IN
         shorter \cup {s \o c : s \in shorter, c \in alphabet}

MatchPaths ==
    (Strings({"a", "b", "/"}, MaxPathLen) \ {""})
    \cup {"foo/tests/bar.py", "deep/nested/tests/file.py", "tests/file.py", "foo/bar.py"}

MatchPatterns ==
    Strings({"a", "/", "*"}, MaxPatLen)
    \cup {"**/tests/*", "tests/**/*.py", "**/a.py", "src\\**\\a"}

InitMatch ==
    /\ LoadIdle
    /\ call \in {[op |-> "_matches_pattern", file_path |-> p, pattern |-> q] :
                    p \in MatchPaths, q \in MatchPatterns}
    /\ ret = None

MatchesPatternCall ==
    /\ call.op = "_matches_pattern"
    /\ ret = None
    /\ ret' = Bool(matches_pattern(call.file_path, call.pattern))
    /\ UNCHANGED <<loadVars, call>>

NextMatch == MatchesPatternCall

SpecMatch == InitMatch /\ [][NextMatch]_vars

(***************************************************************************)
(* Claims about _matches_pattern.                                          *)
(***************************************************************************)
MatchReturned == call.op = "_matches_pattern" /\ ret.t = "bool"

\* the pattern holds exactly one ** and something after it
OneDoubleStarWithSuffix(pattern) ==
    LET parts == Split(Replace(pattern, "\\", "/"), "**") IN
    Len(parts) = 2 /\ parts[2] # ""

SuffixOf(pattern) == LStrip(Split(Replace(pattern, "\\", "/"), "**")[2], "/")

\* the path components [i:] joined by /, i from 1
Remaining(file_path, i) ==
    LET path_parts == Split(Replace(file_path, "\\", "/"), "/") IN
    Join(SubSeq(path_parts, i, Len(path_parts)), "/")

NumParts(file_path) == Len(Split(Replace(file_path, "\\", "/"), "/"))

TestsPatternExamples ==
    (MatchReturned /\ call.pattern = "**/tests/*") =>
        /\ call.file_path \in {"foo/tests/bar.py", "deep/nested/tests/file.py",
                                "tests/file.py"} => ret.v
        /\ call.file_path = "foo/bar.py" => ~ret.v

\* C8 as stated: with exactly one ** and a non-empty suffix, the result is true
\* if and only if some tail of the path components glob-matches the suffix or
\* */ + suffix; **/tests/* matches the three example paths and not foo/bar.py.
C8_SuffixOrOneDirectory ==
    /\ (MatchReturned /\ OneDoubleStarWithSuffix(call.pattern)) =>
          (ret.v <=> \E i \in 1..NumParts(call.file_path) :
                        \/ fnmatch(Remaining(call.file_path, i), SuffixOf(call.pattern))
                        \/ fnmatch(Remaining(call.file_path, i),
                                   "*/" \o SuffixOf(call.pattern)))
    /\ TestsPatternExamples

\* C8 amended: the result is true if and only if some tail of the path
\* components glob-matches suffix + * or */ + suffix + *, or the whole path
\* glob-matches the pattern with ** replaced by *; the examples hold.
C8_SuffixStarOrFlatGlob ==
    /\ (MatchReturned /\ OneDoubleStarWithSuffix(call.pattern)) =>
          (ret.v <=>
             \/ \E i \in 1..NumParts(call.file_path) :
                   \/ fnmatch(Remaining(call.file_path, i),
                              SuffixOf(call.pattern) \o "*")
                   \/ fnmatch(Remaining(call.file_path, i),
                              "*/" \o SuffixOf(call.pattern) \o "*")
             \/ fnmatch(Replace(call.file_path, "\\", "/"),
                        Replace(Replace(call.pattern, "\\", "/"), "**", "*")))
    /\ TestsPatternExamples

C8_Witness ==
    /\ MatchReturned
    /\ call.pattern = "**/tests/*"
    /\ call.file_path = "deep/nested/tests/file.py"
    /\ ret.v

(***************************************************************************)
(* SpecRules, SpecIgnores, SpecExclude: accessor and decision calls on a   *)
(* loaded JuffConfig whose merged configuration is drawn from a family of *)
(* rule selections, of per-file ignores or of excludes, or is empty.      *)
(***************************************************************************)
\* a list stored in per-file-ignores may grow to this length before the
\* model stops calling get_per_file_ignores
MaxIgnoreLen == 3

Absent == [has |-> FALSE, v |-> <<>>]

Some(x) == [has |-> TRUE, v |-> x]

OptList(key, o) == IF o.has THEN key :> List(o.v) ELSE EmptyDict

OptTable(key, o) == IF o.has THEN key :> Table(o.v) ELSE EmptyDict

\* a [section] table, written only when it holds a key
Section(key, d) == IF DOMAIN d = {} THEN EmptyDict ELSE key :> Table(d)

SelectOptions ==
    <<Absent, Some(<<"ALL">>), Some(<<"E", "F">>), Some(<<"E", "ALL">>),
      Some(<<"PLC0414">>), Some(<<"DOC101", "I001", "XYZ1">>),
      Some(<<"E", "I", "UP", "PLC">>), Some(<<>>)>>

ExtendSelectOptions == <<Absent, Some(<<"B">>)>>

IgnoreOptions ==
    <<Absent, Some(<<"E501">>), Some(<<"S101">>), Some(<<"E">>), Some(<<"F4", "ALL">>)>>

ExtendIgnoreOptions == <<Absent, Some(<<"F401">>)>>

PerFileIgnoresOptions ==
    <<Absent,
      Some("__init__.py" :> List(<<"F401", "F403">>)),
      Some(("**/tests/*" :> List(<<"ANN">>)) @@ ("**/fixtures/*" :> List(<<"ALL">>))),
      Some("src/*.py" :> List(<<"F401">>))>>

ExtendPerFileIgnoresOptions ==
    <<Absent,
      Some("__init__.py" :> List(<<"E501">>)),
      Some("**/tests/*" :> List(<<"S101">>)),
      Some("main.py" :> List(<<"B">>))>>

ExcludeOptions ==
    <<Absent, Some(<<"vendor/", "generated/">>), Some(<<>>), Some(<<"">>), Some(<<"/">>)>>

ExtendExcludeOptions == <<Absent, Some(<<"legacy/">>)>>

LintExcludeOptions == <<Absent, Some(<<"lint_excluded/">>)>>

FormatExcludeOptions == <<Absent, Some(<<"format_excluded/">>)>>

RuleConfig(i, j, k, l) ==
    "lint" :> Table(OptList("select", SelectOptions[i])
                    @@ OptList("extend-select", ExtendSelectOptions[j])
                    @@ OptList("ignore", IgnoreOptions[k])
                    @@ OptList("extend-ignore", ExtendIgnoreOptions[l]))

IgnoresConfig(i, j, k) ==
    "lint" :> Table(OptList("ignore", IgnoreOptions[i])
                    @@ OptTable("per-file-ignores", PerFileIgnoresOptions[j])
                    @@ OptTable("extend-per-file-ignores",
                                ExtendPerFileIgnoresOptions[k]))

ExcludeConfig(i, j, k, l) ==
    OptList("exclude", ExcludeOptions[i])
    @@ OptList("extend-exclude", ExtendExcludeOptions[j])
    @@ Section("lint", OptList("exclude", LintExcludeOptions[k]))
    @@ Section("format", OptList("exclude", FormatExcludeOptions[l]))

QueryRules ==
    {"E101", "E501", "F401", "F403", "W503", "B001", "S101", "E", "FBT001",
     "ANN001"}

IgnorePaths ==
    {"__init__.py", "src/__init__.py", "pkg/sub/__init__.py", "main.py",
     "src/main.py", "tests/test_main.py", "tests/fixtures/sample.py"}

ExcludePaths ==
    {".git/config", "vendor/lib.py", "generated/models.py", "src/main.py",
     "legacy/old_code.py", "lint_excluded/foo.py", "format_excluded/bar.py",
     ".venv/lib/site.py"}

Modes == {"None", "lint", "format"}

\* a JuffConfig whose load() has returned the dict d, read from a juff.toml
\* without extend key in the working directory
LoadedWith(d) ==
    /\ fs = (<<0, "juff.toml">> :> File(TRUE, d))
    /\ cwd = 0
    /\ config_path = Path(<<0, "juff.toml">>)
    /\ config = Table(d)
    /\ project_root = Num(0)
    /\ pc = "returned"
    /\ stack = <<>>
    /\ seen_paths = {}
    /\ arg = None
    /\ reads = <<<<0, "juff.toml">>>>
    /\ call = [op |-> "none"]
    /\ ret = None

InitRules ==
    \/ LoadedWith(EmptyDict)
    \/ \E i \in 1..Len(SelectOptions), j \in 1..Len(ExtendSelectOptions),
          k \in 1..Len(IgnoreOptions), l \in 1..Len(ExtendIgnoreOptions) :
          LoadedWith(RuleConfig(i, j, k, l))

InitIgnores ==
    \/ LoadedWith(EmptyDict)
    \/ \E i \in 1..2, j \in 1..Len(PerFileIgnoresOptions),
          k \in 1..Len(ExtendPerFileIgnoresOptions) :
          LoadedWith(IgnoresConfig(i, j, k))

InitExclude ==
    \/ LoadedWith(EmptyDict)
    \/ \E i \in 1..Len(ExcludeOptions), j \in 1..Len(ExtendExcludeOptions),
          k \in 1..Len(LintExcludeOptions), l \in 1..Len(FormatExcludeOptions) :
          LoadedWith(ExcludeConfig(i, j, k, l))

\* the accessors read self.config, which is the stored dict once load() ran
Loaded == pc = "returned" /\ config.t = "table"

\* the caller starts one of `calls` when no call is running
Invoke(calls) ==
    /\ Loaded
    /\ call.op = "none" \/ ret.t # "None"
    /\ call' \in calls
    /\ ret' = None
    /\ UNCHANGED loadVars

\* the call `op` is running
Running(op) == Loaded /\ call.op = op /\ ret.t = "None"

Returns(r) ==
    /\ ret' = r
    /\ UNCHANGED <<fs, cwd, config_path, project_root, pc, stack, seen_paths,
                   arg, reads, call>>

RulesCalls ==
    {[op |-> "get_selected_rules"], [op |-> "get_ignored_rules"],
     [op |-> "get_tools_for_rules"]}
    \cup {[op |-> "is_rule_selected", rule |-> rule] : rule \in QueryRules}

IgnoresCalls ==
    {[op |-> "get_ignored_rules"], [op |-> "get_per_file_ignores"]}
    \cup {[op |-> "get_ignored_rules_for_file", file_path |-> file_path] :
             file_path \in IgnorePaths}
    \cup {[op |-> "is_rule_ignored_for_file", rule |-> rule,
           file_path |-> file_path] :
             rule \in QueryRules, file_path \in IgnorePaths}

ExcludeCalls ==
    {[op |-> "get_exclude_patterns", mode |-> mode] : mode \in Modes}
    \cup {[op |-> "is_file_excluded", file_path |-> file_path, mode |-> mode] :
             file_path \in ExcludePaths, mode \in Modes}

InvokeRules == Invoke(RulesCalls)

InvokeIgnores == Invoke(IgnoresCalls)

InvokeExclude == Invoke(ExcludeCalls)

\* the bound on the growth of the stored per-file-ignores lists
MayGrow ==
    LET base == Get(get_lint_config(config.v), "per-file-ignores",
                    Table(EmptyDict)).v
    IN \A pattern \in DOMAIN base : Len(base[pattern].v) <= MaxIgnoreLen

GetExcludePatterns ==
    /\ Running("get_exclude_patterns")
    /\ Returns(List(get_exclude_patterns(config.v, call.mode)))
    /\ UNCHANGED config

GetSelectedRules ==
    /\ Running("get_selected_rules")
    /\ Returns(List(get_selected_rules(config.v)))
    /\ UNCHANGED config

GetIgnoredRules ==
    /\ Running("get_ignored_rules")
    /\ Returns(List(get_ignored_rules(config.v)))
    /\ UNCHANGED config

GetPerFileIgnores ==
    /\ Running("get_per_file_ignores")
    /\ MayGrow
    /\ Returns(Table(get_per_file_ignores(config.v)))
    /\ config' = Table(after_get_per_file_ignores(config.v))

GetIgnoredRulesForFile ==
    /\ Running("get_ignored_rules_for_file")
    /\ MayGrow
    /\ Returns(List(get_ignored_rules_for_file(config.v, call.file_path)))
    /\ config' = Table(after_get_per_file_ignores(config.v))

IsRuleSelected ==
    /\ Running("is_rule_selected")
    /\ Returns(Bool(is_rule_selected(config.v, call.rule)))
    /\ UNCHANGED config

GetToolsForRules ==
    /\ Running("get_tools_for_rules")
    /\ Returns([t |-> "set", v |-> get_tools_for_rules(config.v)])
    /\ UNCHANGED config

IsFileExcluded ==
    /\ Running("is_file_excluded")
    /\ Returns(Bool(is_file_excluded(config.v, call.file_path, call.mode)))
    /\ UNCHANGED config

IsRuleIgnoredForFile ==
    /\ Running("is_rule_ignored_for_file")
    /\ MayGrow
    /\ Returns(Bool(is_rule_ignored_for_file(config.v, call.rule, call.file_path)))
    /\ config' = Table(after_get_per_file_ignores(config.v))

NextRules ==
    \/ InvokeRules
    \/ GetSelectedRules
    \/ GetIgnoredRules
    \/ IsRuleSelected
    \/ GetToolsForRules

NextIgnores ==
    \/ InvokeIgnores
    \/ GetIgnoredRules
    \/ GetPerFileIgnores
    \/ GetIgnoredRulesForFile
    \/ IsRuleIgnoredForFile

NextExclude ==
    \/ InvokeExclude
    \/ GetExcludePatterns
    \/ IsFileExcluded

(***************************************************************************)
(* SpecDefaults: load() and the accessors of the global and lint options  *)
(* on a JuffConfig fresh from __init__, over directory trees in which a    *)
(* config file may or may not be found.                                    *)
(***************************************************************************)
\* a juff.toml that sets every option the accessors below read
Customised ==
    ("line-length" :> Num(100))
    @@ ("target-version" :> Str("py39"))
    @@ ("exclude" :> List(<<"build">>))
    @@ ("lint" :> Table(("select" :> List(<<"F">>))
                        @@ ("ignore" :> List(<<"E501">>))
                        @@ ("fixable" :> List(<<"F401">>))
                        @@ ("unfixable" :> List(<<"E">>))))

DefaultsListings ==
    << EmptyDict,
       "pyproject.toml" :> File(FALSE, EmptyDict),
       "pyproject.toml" :> File(TRUE, "project" :> Table(EmptyDict)),
       "juff.toml" :> File(TRUE, Customised) >>

DefaultsTree(choice) ==
    LET paths == UNION {{<<d, name>> : name \in DOMAIN DefaultsListings[choice[d]]} :
                           d \in DOMAIN choice}
    IN [p \in paths |-> DefaultsListings[choice[p[1]]][p[2]]]

DefaultsExplicitPaths ==
    {None, Path(<<0, "juff.toml">>), Path(<<0, "pyproject.toml">>)}

InitDefaults ==
    \E choice \in [Dirs -> 1..Len(DefaultsListings)], working_dir \in Dirs,
       explicit \in DefaultsExplicitPaths :
        Constructed(DefaultsTree(choice), working_dir, explicit)

DefaultsCalls ==
    {[op |-> "get_line_length"], [op |-> "get_target_version"],
     [op |-> "get_selected_rules"], [op |-> "get_ignored_rules"],
     [op |-> "get_fixable_rules"], [op |-> "get_unfixable_rules"],
     [op |-> "get_exclude_patterns", mode |-> "None"]}

InvokeDefaults == Invoke(DefaultsCalls)

GetLineLength ==
    /\ Running("get_line_length")
    /\ Returns(get_line_length(config.v))
    /\ UNCHANGED config

GetTargetVersion ==
    /\ Running("get_target_version")
    /\ Returns(get_target_version(config.v))
    /\ UNCHANGED config

GetFixableRules ==
    /\ Running("get_fixable_rules")
    /\ Returns(List(get_fixable_rules(config.v)))
    /\ UNCHANGED config

GetUnfixableRules ==
    /\ Running("get_unfixable_rules")
    /\ Returns(List(get_unfixable_rules(config.v)))
    /\ UNCHANGED config

NextDefaults ==
    \/ LoadCached
    \/ LoadNoFile
    \/ LoadRaise
    \/ LoadPlain
    \/ InvokeDefaults
    \/ GetLineLength
    \/ GetTargetVersion
    \/ GetSelectedRules
    \/ GetIgnoredRules
    \/ GetFixableRules
    \/ GetUnfixableRules
    \/ GetExcludePatterns

\* load() without a config file, and the defaults of the accessors
SpecDefaults == InitDefaults /\ [][NextDefaults]_vars

(***************************************************************************)
(* SpecPrefix: Flake8Tool._prefix_matches_code and _code_matches_selection *)
(* applied to bounded prefixes and codes.                                  *)
(***************************************************************************)
MaxPrefixLen == 2

MaxCodeLen == 3

PrefixAlphabet == {"E", "F", "8", "1"}

Prefixes == Strings(PrefixAlphabet, MaxPrefixLen)

ErrorCodes == Strings(PrefixAlphabet, MaxCodeLen) \ {""}

Selections == {<<>>, <<"F">>, <<"E", "F">>, <<"ALL">>, <<"E8">>}

Ignorings == {<<>>, <<"E">>, <<"F1">>}

PrefixCalls ==
    {[op |-> "_prefix_matches_code", prefix |-> prefix, code |-> code] :
        prefix \in Prefixes, code \in ErrorCodes}
    \cup {[op |-> "_code_matches_selection", code |-> code,
           selected |-> selected, ignored |-> ignored] :
             code \in ErrorCodes, selected \in Selections, ignored \in Ignorings}

InitPrefix ==
    /\ LoadIdle
    /\ call \in PrefixCalls
    /\ ret = None

PrefixMatchesCode ==
    /\ call.op = "_prefix_matches_code"
    /\ ret.t = "None"
    /\ ret' = Bool(prefix_matches_code(call.prefix, call.code))
    /\ UNCHANGED <<loadVars, call>>

CodeMatchesSelection ==
    /\ call.op = "_code_matches_selection"
    /\ ret.t = "None"
    /\ ret' = Bool(code_matches_selection(call.code, call.selected, call.ignored))
    /\ UNCHANGED <<loadVars, call>>

NextPrefix ==
    \/ PrefixMatchesCode
    \/ CodeMatchesSelection

\* prefix matching of the flake8 tool
SpecPrefix == InitPrefix /\ [][NextPrefix]_vars

(***************************************************************************)
(* SpecFixable: the fixable and unfixable rules of a loaded configuration. *)
(***************************************************************************)
FixableOptions ==
    <<Absent, Some(<<"ALL">>), Some(<<"E", "F">>), Some(<<"F401">>), Some(<<>>)>>

ExtendFixableOptions == <<Absent, Some(<<"B">>), Some(<<"ALL">>)>>

UnfixableOptions ==
    <<Absent, Some(<<"F401">>), Some(<<"E">>), Some(<<"B0", "S101">>), Some(<<"ALL">>)>>

ExtendUnfixableOptions == <<Absent, Some(<<"E5">>)>>

FixableConfig(i, j, k, l) ==
    Section("lint", OptList("fixable", FixableOptions[i])
                    @@ OptList("extend-fixable", ExtendFixableOptions[j])
                    @@ OptList("unfixable", UnfixableOptions[k])
                    @@ OptList("extend-unfixable", ExtendUnfixableOptions[l]))

InitFixable ==
    \E i \in 1..Len(FixableOptions), j \in 1..Len(ExtendFixableOptions),
       k \in 1..Len(UnfixableOptions), l \in 1..Len(ExtendUnfixableOptions) :
        LoadedWith(FixableConfig(i, j, k, l))

FixableCalls ==
    {[op |-> "get_fixable_rules"], [op |-> "get_unfixable_rules"]}
    \cup {[op |-> "is_rule_fixable", rule |-> rule] : rule \in QueryRules}

InvokeFixable == Invoke(FixableCalls)

IsRuleFixable ==
    /\ Running("is_rule_fixable")
    /\ Returns(Bool(is_rule_fixable(config.v, call.rule)))
    /\ UNCHANGED config

NextFixable ==
    \/ InvokeFixable
    \/ GetFixableRules
    \/ GetUnfixableRules
    \/ IsRuleFixable

\* fixable and unfixable rules
SpecFixable == InitFixable /\ [][NextFixable]_vars

(***************************************************************************)
(* SpecDerive: _derive_target_version_from_requires_python and             *)
(* _normalize_ruff_table applied to specifiers written from bounded lists  *)
(* of fragments.                                                           *)
(***************************************************************************)
\* the most fragments of a requires-python specifier
MaxFragments == 2

Fragment(op, components, suffix) ==
    [op |-> op, components |-> components, suffix |-> suffix]

\* operator, version components, text after the version; the last three
\* are a bare version, a wildcard, an empty fragment
Fragments ==
    {Fragment(op, components, "") :
        op \in {">=", ">", "==", "=", "~=", "<", "!="},
        components \in {<<3>>, <<3, 8>>, <<3, 10>>, <<2, 7, 1>>}}
    \cup {Fragment("", <<3, 9>>, ""), Fragment("==", <<3>>, ".*"),
          Fragment("", <<>>, "")}

RECURSIVE TextsOf(_)
TextsOf(components) ==
    IF Len(components) = 0 THEN <<>>
    ELSE <<str_of(components[1])>> \o TextsOf(Tail(components))

\* the fragment as a manifest writes it, with or without spaces
FragmentText(fragment, spaced) ==
    LET text == Join(TextsOf(fragment.components), ".") \o fragment.suffix IN
    IF spaced /\ fragment.op # "" THEN " " \o fragment.op \o " " \o text \o " "
    ELSE fragment.op \o text

RECURSIVE FragmentTexts(_, _)
FragmentTexts(written, spaced) ==
    IF Len(written) = 0 THEN <<>>
    ELSE <<FragmentText(written[1], spaced)>> \o FragmentTexts(Tail(written), spaced)

SpecifierText(written, spaced) == Join(FragmentTexts(written, spaced), ",")

FragmentLists(n) == UNION {[1..k -> Fragments] : k \in 0..n}

\* the [tool.ruff] tables _normalize_ruff_table is given
RuffTables ==
    {EmptyDict,
     "target-version" :> Str("py39"),
     ("target-version" :> Str("py312")) @@ ("line-length" :> Num(100)),
     ("extend" :> Str("base.toml"))
     @@ ("lint" :> Table(("select" :> List(<<"E">>))
                         @@ ("per-file-ignores" :>
                                Table("a.py" :> List(<<"F401">>)))))}

DeriveCalls ==
    {[op |-> "_derive_target_version_from_requires_python",
      spec |-> Str(SpecifierText(written, spaced)), written |-> written] :
        written \in FragmentLists(MaxFragments), spaced \in BOOLEAN}
    \cup {[op |-> "_derive_target_version_from_requires_python",
           spec |-> None, written |-> <<>>]}
    \cup {[op |-> "_normalize_ruff_table", table |-> table,
           requires_python |-> Str(SpecifierText(written, FALSE)),
           written |-> written,
           allow_target_fallback |-> allow_target_fallback] :
             table \in RuffTables, written \in FragmentLists(MaxFragments - 1),
             allow_target_fallback \in BOOLEAN}
    \cup {[op |-> "_normalize_ruff_table", table |-> table,
           requires_python |-> None, written |-> <<>>,
           allow_target_fallback |-> allow_target_fallback] :
             table \in RuffTables, allow_target_fallback \in BOOLEAN}

InitDerive ==
    /\ LoadIdle
    /\ call \in DeriveCalls
    /\ ret = None

DeriveTargetVersion ==
    /\ call.op = "_derive_target_version_from_requires_python"
    /\ pc = "new"
    /\ pc' = "returned"
    /\ ret' = derive_target_version_from_requires_python(call.spec)
    /\ UNCHANGED <<fs, cwd, config_path, config, project_root, stack,
                   seen_paths, arg, reads, call>>

NormalizeRuffTable ==
    /\ call.op = "_normalize_ruff_table"
    /\ pc = "new"
    /\ pc' = "returned"
    /\ ret' = [t |-> "RuffConfig",
               v |-> normalize_ruff_table(call.table, <<0, "pyproject.toml">>,
                                          call.requires_python,
                                          call.allow_target_fallback)]
    /\ UNCHANGED <<fs, cwd, config_path, config, project_root, stack,
                   seen_paths, arg, reads, call>>

NextDerive ==
    \/ DeriveTargetVersion
    \/ NormalizeRuffTable

\* the target version hint
SpecDerive == InitDerive /\ [][NextDerive]_vars

(***************************************************************************)
(* SpecMerge: _merge_configs applied to three bounded configuration trees. *)
(***************************************************************************)
\* the deepest nesting of tables in a tree
MaxTreeDepth == 1

\* the values that are no tables: a scalar and a list
Leaves == {Num(1), List(<<"E">>)}

\* the trees of nesting depth <= depth: the key k with a leaf or a table,
\* the key extend with a path, each present or absent
RECURSIVE Trees(_)
Trees(depth) ==
    LET values == IF depth = 0 THEN Leaves
                  ELSE Leaves \cup {Table(tree) : tree \in Trees(depth - 1)}
        with_k == {EmptyDict} \cup {"k" :> value : value \in values}
    IN with_k \cup {tree @@ ("extend" :> Str("base.toml")) : tree \in with_k}

InitMerge ==
    /\ LoadIdle
    /\ \E a \in Trees(MaxTreeDepth), b \in Trees(MaxTreeDepth),
          c \in Trees(MaxTreeDepth) :
          call = [op |-> "_merge_configs", a |-> a, b |-> b, c |-> c]
    /\ ret = None

\* _merge_configs(parent, child) called in the two nestings
MergeConfigs ==
    /\ call.op = "_merge_configs"
    /\ pc = "new"
    /\ pc' = "returned"
    /\ ret' = [t |-> "pair",
               left |-> Table(merge_configs(merge_configs(call.a, call.b), call.c)),
               right |-> Table(merge_configs(call.a, merge_configs(call.b, call.c)))]
    /\ UNCHANGED <<fs, cwd, config_path, config, project_root, stack,
                   seen_paths, arg, reads, call>>

NextMerge == MergeConfigs

\* the merge of configuration trees
SpecMerge == InitMerge /\ [][NextMerge]_vars

\* JuffVenvManager: the venv on disk. Directory 0 is juff_home, directory 1
\* the venv's bin directory, directory 2 its site-packages.
DEFAULT_PACKAGES ==
    <<"flake8>=7.3", "pylint>=3.3", "ruff>=0.8", "black>=25.11", "isort>=6.0">>

marker_file == <<0, ".initialized">>

python_executable == <<1, "python">>

\* the file that a requirement's distribution puts into the venv
site_package(requirement) == <<2, requirement>>

is_initialized(files) ==
    Exists(files, marker_file) /\ Exists(files, python_executable)

\* shutil.rmtree(self.venv_path): what is outside the venv stays
rmtree(files) == [p \in {q \in DOMAIN files : q[1] = 0} |-> files[p]]

\* _create_venv: the old venv is removed, a new one is built with pip
create_venv(files) ==
    (python_executable :> File(TRUE, EmptyDict))
    @@ (site_package("pip") :> File(TRUE, EmptyDict))
    @@ rmtree(files)

\* the venv once pip has put the distributions of some requirements into it
installed(files, requirements) ==
    [p \in {site_package(r) : r \in requirements} |-> File(TRUE, EmptyDict)]
    @@ files

\* _mark_initialized: the marker file is written
mark_initialized(files) == (marker_file :> File(TRUE, EmptyDict)) @@ files

venvRest == <<cwd, config_path, config, project_root, stack, seen_paths, arg,
              reads>>

EnsureInitializedCall(force) == [op |-> "ensure_initialized", force |-> force]

InitVenv == LoadIdle /\ call = [op |-> "none"] /\ ret = None

\* is_initialized() called between two runs
IsInitialized ==
    /\ Idle
    /\ call' = [op |-> "is_initialized"]
    /\ ret' = Bool(is_initialized(fs))
    /\ UNCHANGED loadVars

\* ensure_initialized: initialized and not forced, nothing is done
EnsureInitializedReturn ==
    /\ Idle
    /\ \E force \in BOOLEAN :
        /\ is_initialized(fs) /\ ~force
        /\ call' = EnsureInitializedCall(force)
    /\ ret' = None
    /\ pc' = "returned"
    /\ UNCHANGED <<fs, venvRest>>

\* ensure_initialized: the venv is created
CreateVenv ==
    /\ Idle
    /\ \E force \in BOOLEAN :
        /\ ~(is_initialized(fs) /\ ~force)
        /\ call' = EnsureInitializedCall(force)
    /\ fs' = create_venv(fs)
    /\ ret' = None
    /\ pc' = "upgrade_pip"
    /\ UNCHANGED venvRest

\* _install_packages: pip install --upgrade pip exits with 0
UpgradePip ==
    /\ pc = "upgrade_pip"
    /\ pc' = "install"
    /\ UNCHANGED <<fs, venvRest, call, ret>>

\* _install_packages: pip install --upgrade pip fails, RuntimeError
UpgradePipFails ==
    /\ pc = "upgrade_pip"
    /\ pc' = "raised"
    /\ UNCHANGED <<fs, venvRest, call, ret>>

\* _install_packages: pip installs every package
InstallPackages ==
    /\ pc = "install"
    /\ fs' = installed(fs, Range(DEFAULT_PACKAGES))
    /\ pc' = "mark"
    /\ UNCHANGED <<venvRest, call, ret>>

\* _install_packages: pip fails, having installed some of the packages;
\* RuntimeError
InstallPackagesFails ==
    /\ pc = "install"
    /\ \E requirements \in SUBSET Range(DEFAULT_PACKAGES) :
        fs' = installed(fs, requirements)
    /\ pc' = "raised"
    /\ UNCHANGED <<venvRest, call, ret>>

\* _mark_initialized, and ensure_initialized returns
MarkInitialized ==
    /\ pc = "mark"
    /\ fs' = mark_initialized(fs)
    /\ pc' = "returned"
    /\ UNCHANGED <<venvRest, call, ret>>

NextVenv ==
    \/ IsInitialized
    \/ EnsureInitializedReturn
    \/ CreateVenv
    \/ UpgradePip
    \/ UpgradePipFails
    \/ InstallPackages
    \/ InstallPackagesFails
    \/ MarkInitialized

SpecVenv == InitVenv /\ [][NextVenv]_vars

\* rule selection and tool dispatch
SpecRules == InitRules /\ [][NextRules]_vars

\* global and per-file ignores
SpecIgnores == InitIgnores /\ [][NextIgnores]_vars

\* exclude patterns
SpecExclude == InitExclude /\ [][NextExclude]_vars

(***************************************************************************)
(* Claims about the accessors and the decision methods.                    *)
(***************************************************************************)
\* the call `op` has returned
Returned(op) == call.op = op /\ ret.t # "None"

\* the lists and tables as the merged configuration holds them
Configured(section, key) ==
    IF section \in DOMAIN config.v /\ key \in DOMAIN config.v[section].v
    THEN Range(config.v[section].v[key].v)
    ELSE {}

ConfiguredIgnored == Configured("lint", "ignore") \cup Configured("lint", "extend-ignore")

ConfiguredSelected ==
    (IF "lint" \in DOMAIN config.v /\ "select" \in DOMAIN config.v["lint"].v
     THEN Configured("lint", "select")
     ELSE {"E", "F", "W"})
    \cup Configured("lint", "extend-select")

EqualsOrPrefixes(entry, rule) == entry = rule \/ StartsWith(rule, entry)

\* C3: is_rule_selected(rule) is false whenever an ignored entry equals the
\* rule or is a prefix of it, also when select holds ALL; otherwise it is true
\* exactly when a selected entry is ALL, equals the rule or is a prefix of it.
C3_IgnoredThenSelected ==
    Returned("is_rule_selected") =>
        ret.v = IF \E e \in ConfiguredIgnored : EqualsOrPrefixes(e, call.rule)
                THEN FALSE
                ELSE \E e \in ConfiguredSelected :
                        e = "ALL" \/ EqualsOrPrefixes(e, call.rule)

C3_Witness ==
    /\ Returned("is_rule_selected")
    /\ "ALL" \in ConfiguredSelected
    /\ \E e \in ConfiguredIgnored : EqualsOrPrefixes(e, call.rule)
    /\ ~ret.v

AllTools == {RULE_PREFIX_MAPPING(p) : p \in Range(RULE_PREFIXES)}

\* p is the longest catalog prefix that is a prefix of entry
LongestCatalogPrefix(p, entry) ==
    /\ p \in Range(RULE_PREFIXES)
    /\ StartsWith(entry, p)
    /\ \A q \in Range(RULE_PREFIXES) : StartsWith(entry, q) => Len(q) <= Len(p)

\* the selected entries in the order get_selected_rules lists them
SelectedList ==
    LET lint == IF "lint" \in DOMAIN config.v THEN config.v["lint"].v ELSE EmptyDict
    IN (IF "select" \in DOMAIN lint THEN lint["select"].v ELSE <<"E", "F", "W">>)
       \o (IF "extend-select" \in DOMAIN lint THEN lint["extend-select"].v ELSE <<>>)

\* C4: get_tools_for_rules() is every tool of the catalog when ALL is selected,
\* wherever it stands; otherwise exactly the tools owning the longest catalog
\* prefix of each selected entry (PLC0414 yields pylint only).
C4_ToolsOfLongestPrefix ==
    Returned("get_tools_for_rules") =>
        /\ "ALL" \in ConfiguredSelected => ret.v = AllTools
        /\ "ALL" \notin ConfiguredSelected =>
              ret.v = {RULE_PREFIX_MAPPING(p) :
                         p \in {q \in Range(RULE_PREFIXES) :
                                  \E e \in ConfiguredSelected :
                                      LongestCatalogPrefix(q, e)}}
        /\ SelectedList = <<"PLC0414">> => ret.v = {"pylint"}

C4_Witness ==
    /\ Returned("get_tools_for_rules")
    /\ "ALL" \in ConfiguredSelected
    /\ SelectedList[1] # "ALL"
    /\ ret.v = AllTools
    /\ "black" \in ret.v

IsPrefixOf(short, long) ==
    Len(short) <= Len(long) /\ SubSeq(long, 1, Len(short)) = short

TopLevel(key) == IF key \in DOMAIN config.v THEN config.v[key].v ELSE <<>>

\* C6: get_exclude_patterns(mode) starts with the exclude list when the key is
\* present and with the built-in defaults otherwise, then the extend-exclude
\* entries; a configured exclude drops every built-in default (.git/config is
\* not excluded under exclude = [vendor/, generated/]); extend-exclude alone
\* drops none.
C6_ExcludeReplacesDefaults ==
    /\ Returned("get_exclude_patterns") =>
          /\ IsPrefixOf((IF "exclude" \in DOMAIN config.v
                         THEN config.v["exclude"].v
                         ELSE DEFAULT_EXCLUDE) \o TopLevel("extend-exclude"),
                        ret.v)
          /\ "exclude" \in DOMAIN config.v =>
                Range(ret.v) \cap Range(DEFAULT_EXCLUDE) = {}
          /\ "exclude" \notin DOMAIN config.v =>
                Range(DEFAULT_EXCLUDE) \subseteq Range(ret.v)
    /\ (Returned("is_file_excluded") /\ call.file_path = ".git/config") =>
          /\ ("exclude" \in DOMAIN config.v
              /\ config.v["exclude"].v = <<"vendor/", "generated/">>) => ~ret.v
          /\ "exclude" \notin DOMAIN config.v => ret.v

C6_Witness ==
    /\ Returned("is_file_excluded")
    /\ call.file_path = ".git/config"
    /\ "exclude" \in DOMAIN config.v
    /\ config.v["exclude"].v = <<"vendor/", "generated/">>
    /\ "extend-exclude" \in DOMAIN config.v
    /\ ~ret.v

\* the last component of a path
BaseName(file_path) ==
    LET path_parts == Split(file_path, "/") IN path_parts[Len(path_parts)]

\* the per-file-ignores table holds the one pattern __init__.py, nothing is
\* ignored globally and no extend table is given
OnlyInitPyIgnored ==
    /\ "lint" \in DOMAIN config.v
    /\ DOMAIN config.v["lint"].v = {"per-file-ignores"}
    /\ DOMAIN config.v["lint"].v["per-file-ignores"].v = {"__init__.py"}

\* C7: a bare file name pattern applies to every file with that base name at
\* any depth and to no other: with __init__.py = [F401, F403], those codes are
\* ignored for __init__.py, src/__init__.py and pkg/sub/__init__.py, not for
\* main.py.
C7_BareNameAtAnyDepth ==
    (Returned("is_rule_ignored_for_file") /\ OnlyInitPyIgnored
     /\ call.rule \in {"F401", "F403"}) =>
        (ret.v <=> BaseName(call.file_path) = "__init__.py")

\* the codes listed, in either table, under the patterns that match file_path
CodesOfMatchingPatterns(file_path) ==
    LET codes(key) ==
            IF "lint" \in DOMAIN config.v /\ key \in DOMAIN config.v["lint"].v
            THEN UNION {Range(config.v["lint"].v[key].v[pattern].v) :
                          pattern \in {q \in DOMAIN config.v["lint"].v[key].v :
                                         matches_pattern(file_path, q)}}
            ELSE {}
    IN codes("per-file-ignores") \cup codes("extend-per-file-ignores")

\* C9: is_rule_ignored_for_file(rule, path) is true exactly when an entry of
\* the global ignored rules, or of the codes of a per-file-ignores pattern
\* matching path, is ALL, equals the rule or is a prefix of it.
C9_GlobalOrMatchingPattern ==
    Returned("is_rule_ignored_for_file") =>
        (ret.v <=> \E e \in ConfiguredIgnored \cup CodesOfMatchingPatterns(call.file_path) :
                      e = "ALL" \/ EqualsOrPrefixes(e, call.rule))

C9_Witness ==
    /\ Returned("is_rule_ignored_for_file")
    /\ call.file_path = "tests/fixtures/sample.py"
    /\ call.rule = "F401"
    /\ "ALL" \in CodesOfMatchingPatterns(call.file_path)
    /\ ConfiguredIgnored = {}
    /\ ret.v

\* C10: no accessor changes the merged configuration, and calling
\* get_per_file_ignores() again returns what it returned.
C10_AccessorsLeaveConfig ==
    /\ [][config' = config]_vars
    /\ [](Returned("get_per_file_ignores") => get_per_file_ignores(config.v) = ret.v)

(***************************************************************************)
(* C5: discovery returns the first candidate of the nearest directory.    *)
(***************************************************************************)
\* the directory a returned find_config_file() call started from
StartOf == IF call.start_dir.t = "None" THEN cwd ELSE call.start_dir.v

\* a pyproject.toml that parses and has a [tool.juff] or [tool.ruff] table
HasToolTable(p) ==
    /\ fs[p].ok
    /\ "tool" \in DOMAIN fs[p].data
    /\ fs[p].data["tool"].t = "table"
    /\ {"juff", "ruff"} \cap DOMAIN fs[p].data["tool"].v # {}

\* directory d holds the i-th candidate name, acceptably
Candidate(d, i) ==
    LET p == <<d, CONFIG_FILES[i]>> IN
    /\ p \in DOMAIN fs
    /\ CONFIG_FILES[i] = "pyproject.toml" => HasToolTable(p)

\* C5: with no explicit config path, find_config_file(start_dir) returns the
\* candidate of the nearest directory from start_dir up to the root that
\* holds an accepted candidate, the first of that directory in the order
\* juff.toml, .juff.toml, ruff.toml, .ruff.toml, pyproject.toml (accepted
\* only with a [tool.juff] or [tool.ruff] table), and None when no
\* directory up to the root holds one.
C5_NearestFirstCandidate ==
    (call.op = "find_config_file" /\ config_path.t = "None") =>
        IF \E d \in 0..StartOf, i \in 1..Len(CONFIG_FILES) : Candidate(d, i)
        THEN /\ ret.t = "path"
             /\ \E d \in 0..StartOf, i \in 1..Len(CONFIG_FILES) :
                 /\ ret.v = <<d, CONFIG_FILES[i]>>
                 /\ Candidate(d, i)
                 /\ \A j \in 1..(i - 1) : ~Candidate(d, j)
                 /\ \A e \in (d + 1)..StartOf, j \in 1..Len(CONFIG_FILES) :
                        ~Candidate(e, j)
        ELSE ret.t = "None"

\* the walk passed a pyproject.toml without a juff or ruff table and found
\* a candidate further up
C5_Witness ==
    /\ call.op = "find_config_file"
    /\ config_path.t = "None"
    /\ <<StartOf, "pyproject.toml">> \in DOMAIN fs
    /\ ret.t = "path"
    /\ ret.v[1] < StartOf

(***************************************************************************)
(* C1, C2: the merged configuration of an extend chain.                   *)
(***************************************************************************)
\* load() returned the merged configuration of the file config_path
LoadedFromFile ==
    /\ pc = "returned"
    /\ config_path.t = "path"
    /\ config_path.v \in DOMAIN fs

\* the documents D0, D1, ..., Dn of the extend chain that starts at the
\* file p, when every referenced file exists and parses and none occurs
\* twice; <<>> otherwise
RECURSIVE ChainDocs(_, _)
ChainDocs(p, visited) ==
    IF p \notin DOMAIN fs \/ p \in visited THEN <<>>
    ELSE IF ~fs[p].ok THEN <<>>
    ELSE LET doc == config_of(p[2], fs[p].data) IN
         IF "extend" \notin DOMAIN doc THEN <<Table(doc)>>
         ELSE IF doc["extend"].v.name = "" THEN <<Table(doc)>>
         ELSE LET rest == ChainDocs(extend_target(doc, p[1]), visited \cup {p})
              IN IF Len(rest) = 0 THEN <<>> ELSE <<Table(doc)>> \o rest

\* the values the tables defs[i], defs[i+1], ... give to key, in that order
RECURSIVE ValuesOf(_, _, _)
ValuesOf(defs, key, i) ==
    IF i > Len(defs) THEN <<>>
    ELSE IF key \in DOMAIN defs[i].v
    THEN <<defs[i].v[key]>> \o ValuesOf(defs, key, i + 1)
    ELSE ValuesOf(defs, key, i + 1)

SameValue(x, y) == x.t = y.t /\ x.v = y.v

\* defs are the values the documents defining one key give to it, nearest
\* to the entry first, and res is the value load() exposes for it: a scalar
\* or list of the nearest document is exposed as it is, and when every
\* value is a table, res is a table of exactly their keys and the same
\* holds of each of them (the extend key apart)
RECURSIVE NearestWins(_, _)
NearestWins(defs, res) ==
    IF \A i \in 1..Len(defs) : defs[i].t = "table"
    THEN /\ res.t = "table"
         /\ LET keys == UNION {DOMAIN defs[i].v : i \in 1..Len(defs)} \ {"extend"}
            IN /\ DOMAIN res.v \ {"extend"} = keys
               /\ \A key \in keys : NearestWins(ValuesOf(defs, key, 1), res.v[key])
    ELSE defs[1].t # "table" => SameValue(res, defs[1])

\* C1: along an acyclic extend chain D0 -> D1 -> ... -> Dn whose files all
\* exist, load() exposes for every key (the extend key apart) the value of
\* the document nearest to the entry that defines it: a scalar or a list as
\* a whole, and for a key that is a table in every document defining it
\* the same holds of its sub-keys, so sub-keys of an ancestor survive.
C1_NearestDocumentWins ==
    LoadedFromFile =>
        LET docs == ChainDocs(config_path.v, {}) IN
        Len(docs) > 0 => NearestWins(docs, config)

\* a chain of three documents: the entry and the grandparent both have a
\* lint table, only the grandparent's has the sub-key b, the parent
\* overrides the grandparent's select list and only the grandparent sets
\* overrides nothing of the entry's select list
C1_Witness ==
    /\ LoadedFromFile
    /\ LET docs == ChainDocs(config_path.v, {}) IN
        /\ Len(docs) >= 3
        /\ "lint" \in DOMAIN docs[1].v /\ docs[1].v["lint"].t = "table"
        /\ "b" \notin DOMAIN docs[1].v["lint"].v
        /\ "lint" \in DOMAIN docs[3].v /\ docs[3].v["lint"].t = "table"
        /\ "b" \in DOMAIN docs[3].v["lint"].v
        /\ "lint" \notin DOMAIN docs[2].v
        /\ "select" \in DOMAIN docs[2].v
        /\ "select" \in DOMAIN docs[1].v
        /\ config.v["select"].v = docs[1].v["select"].v
        /\ "b" \in DOMAIN config.v["lint"].v

\* every file tomllib is given parses
AllParse == \A p \in DOMAIN fs : fs[p].ok

\* res keeps what the entry-point document gives: its scalars and lists as
\* they are, and of its tables every key (the extend key apart)
RECURSIVE EntryKept(_, _)
EntryKept(mine, res) ==
    IF mine.t = "table"
    THEN /\ res.t = "table"
         /\ \A key \in DOMAIN mine.v \ {"extend"} :
                key \in DOMAIN res.v /\ EntryKept(mine.v[key], res.v[key])
    ELSE SameValue(res, mine)

\* C2: whatever the extend references of the files are (self-reference,
\* cycles, a chain into a cycle), load() never raises, never has more
\* _resolve_extend calls active than there are files, returns once it was
\* entered, and the result keeps the value of every key of the entry-point
\* file.
C2_CyclesTerminate ==
    /\ [](AllParse => pc # "raised")
    /\ [](Len(stack) <= Cardinality(DOMAIN fs) + 1)
    /\ [](AllParse /\ LoadedFromFile =>
            EntryKept(Table(config_of(config_path.v[2], fs[config_path.v].data)),
                      config))
    /\ (AllParse /\ pc \in {"resolve", "return"}) ~> (pc = "returned")

\* load() returned from a cycle through the entry-point file: the file was
\* read again and the resolution stopped there
C2_Witness ==
    /\ AllParse
    /\ LoadedFromFile
    /\ config_path.v \in seen_paths
    /\ Len(reads) >= 3
    /\ "line-length" \in DOMAIN config.v
(***************************************************************************)
(* C11 .. C15: errors and defaults of load() and find_config_file.        *)
(***************************************************************************)
\* the file the last step of load() opened does not parse
OpenedUnparseable ==
    /\ reads' # reads
    /\ ~fs[reads'[Len(reads')]].ok

\* C11: when load() opens a file that does not parse, the entry config file
\* or an existing extend ancestor, the call raises and hands back no
\* configuration.
C11_ParseErrorRaises ==
    /\ [][OpenedUnparseable => (pc' = "raised" /\ ret'.t = "None")]_vars
    /\ [](pc = "raised" => (ret.t = "None" /\ ~fs[reads[Len(reads)]].ok))

\* load() raised on the grandparent of the entry file
C11_Witness ==
    /\ pc = "raised"
    /\ Len(reads) >= 3
    /\ ~fs[reads[Len(reads)]].ok
    /\ ret.t = "None"
\* the paths p0, p1, ..., pk of the extend chain that starts at the file p
\* and ends at a document whose extend target does not exist, every file
\* before it existing, parsing and occurring once; <<>> when the chain from
\* p does not end that way
RECURSIVE MissingTargetChain(_, _)
MissingTargetChain(p, visited) ==
    IF p \in visited \/ ~fs[p].ok THEN <<>>
    ELSE LET doc == config_of(p[2], fs[p].data) IN
         IF "extend" \notin DOMAIN doc THEN <<>>
         ELSE IF doc["extend"].v.name = "" THEN <<>>
         ELSE LET target == extend_target(doc, p[1]) IN
              IF target \notin DOMAIN fs THEN <<p>>
              ELSE LET rest == MissingTargetChain(target, visited \cup {p})
                   IN IF Len(rest) = 0 THEN <<>> ELSE <<p>> \o rest

\* the document of the file p
DocAt(p) == config_of(p[2], fs[p].data)

\* the documents at paths[i..] resolved with the last one taken as it is:
\* each merged over the resolution of the ones behind it
RECURSIVE ResolvedFrom(_, _)
ResolvedFrom(paths, i) ==
    IF i = Len(paths) THEN DocAt(paths[i])
    ELSE merge_configs(ResolvedFrom(paths, i + 1), DocAt(paths[i]))

\* equal values: equal tags, and equal payloads key by key
RECURSIVE SameTree(_, _)
SameTree(x, y) ==
    /\ x.t = y.t
    /\ IF x.t = "table"
       THEN /\ DOMAIN x.v = DOMAIN y.v
            /\ \A key \in DOMAIN x.v : SameTree(x.v[key], y.v[key])
       ELSE x.v = y.v

\* a document without its extend key
WithoutExtend(d) == [key \in DOMAIN d \ {"extend"} |-> d[key]]

IsPrefixOfReads(paths) ==
    /\ Len(reads) <= Len(paths)
    /\ \A i \in 1..Len(reads) : reads[i] = paths[i]

UnparseablePyproject(d) ==
    /\ <<d, "pyproject.toml">> \in DOMAIN fs
    /\ ~fs[<<d, "pyproject.toml">>].ok

\* directory d holds no candidate name but pyproject.toml
OnlyPyproject(d) ==
    \A i \in 1..Len(CONFIG_FILES) :
        <<d, CONFIG_FILES[i]>> \in DOMAIN fs => CONFIG_FILES[i] = "pyproject.toml"

\* C13: find_config_file never returns a pyproject.toml that does not parse
\* and does not raise on it: past a directory holding nothing else it goes
\* on with the parent directory and returns the accepted candidate an
\* ancestor directory holds, or None.
C13_UnparseablePyprojectSkipped ==
    (call.op = "find_config_file" /\ config_path.t = "None") =>
        /\ pc # "raised"
        /\ ret.t \in {"path", "None"}
        /\ \A d \in 0..StartOf :
              UnparseablePyproject(d) =>
                  (ret.t = "path" => ret.v # <<d, "pyproject.toml">>)
        /\ (UnparseablePyproject(StartOf) /\ OnlyPyproject(StartOf)) =>
              IF \E d \in 0..(StartOf - 1), i \in 1..Len(CONFIG_FILES) : Candidate(d, i)
              THEN /\ ret.t = "path"
                   /\ ret.v[1] < StartOf
                   /\ \E i \in 1..Len(CONFIG_FILES) :
                         ret.v[2] = CONFIG_FILES[i] /\ Candidate(ret.v[1], i)
              ELSE ret.t = "None"

\* the search started at an unparseable pyproject.toml and returned a
\* candidate of an ancestor directory
C13_Witness ==
    /\ call.op = "find_config_file"
    /\ config_path.t = "None"
    /\ StartOf > 0
    /\ UnparseablePyproject(StartOf)
    /\ ret.t = "path"
    /\ ret.v[1] < StartOf
\* load(start_dir) finds no config file: the explicit path does not exist,
\* or no directory from the start directory up to the root holds a candidate
NoFileFor(start_dir) ==
    IF config_path.t = "path" THEN config_path.v \notin DOMAIN fs
    ELSE \A d \in 0..(IF start_dir.t = "None" THEN cwd ELSE start_dir.v),
            i \in 1..Len(CONFIG_FILES) : ~Candidate(d, i)

\* the configuration was loaded without a file
LoadedNoFile == pc = "returned" /\ config.t = "table" /\ reads = <<>>

DefaultOf(op) ==
    CASE op = "get_line_length" -> Num(88)
      [] op = "get_target_version" -> Str("py311")
      [] op = "get_selected_rules" -> List(<<"E", "F", "W">>)
      [] op = "get_ignored_rules" -> List(<<>>)
      [] op = "get_fixable_rules" -> List(<<"ALL">>)
      [] op = "get_unfixable_rules" -> List(<<>>)
      [] op = "get_exclude_patterns" -> List(DEFAULT_EXCLUDE)

\* C14: when no config file is found (no candidate up to the root, or an
\* explicit config path that does not exist), load() returns the empty
\* configuration without raising, and afterwards every accessor returns its
\* default: line length 88, target version py311, selected rules E, F, W,
\* no ignored rules, fixable ALL, no unfixable rules, the built-in excludes.
C14_NoFileDefaults ==
    /\ [][(config.t = "None" /\ call'.op = "load" /\ NoFileFor(call'.start_dir))
            => /\ pc' = "returned"
               /\ ret'.t = "table" /\ ret'.v = EmptyDict
               /\ config'.t = "table" /\ config'.v = EmptyDict]_vars
    /\ []((LoadedNoFile /\ call.op \in {c.op : c \in DefaultsCalls}
           /\ ret.t # "None")
            => /\ config.v = EmptyDict
               /\ ret.t = DefaultOf(call.op).t
               /\ ret.v = DefaultOf(call.op).v)

\* an explicit config path that does not exist, a juff.toml with other
\* values in the working directory, and the default target version returned
C14_Witness ==
    /\ LoadedNoFile
    /\ config_path.t = "path"
    /\ config_path.v \notin DOMAIN fs
    /\ <<cwd, "juff.toml">> \in DOMAIN fs
    /\ call.op = "get_target_version"
    /\ ret.t = "str" /\ ret.v = "py311"

\* no candidate up to the root, and the built-in exclude list returned
C14_WitnessExclude ==
    /\ LoadedNoFile
    /\ config_path.t = "None"
    /\ fs # EmptyDict
    /\ call.op = "get_exclude_patterns"
    /\ ret.t = "list" /\ Len(ret.v) = Len(DEFAULT_EXCLUDE)

\* C15: a second load() on the same object, with the same argument and an
\* unchanged file system, ends as the first one did and yields the same
\* merged content.
C15_SecondLoadSame ==
    [][(/\ call.op = "load" /\ pc \in {"returned", "raised"}
        /\ call'.op = "load" /\ pc' \in {"returned", "raised"}
        /\ call'.start_dir = call.start_dir
        /\ fs' = fs)
          => (pc' = pc /\ SameTree(ret', ret))]_vars

(* C16, C17: single-letter prefixes. *)
\* entry is a single alphabetic character
SingleLetter(entry) == Len(entry) = 1 /\ entry \in Letters

\* entry matches code, a single letter only before a digit
GuardedMatch(entry, code) ==
    \/ entry = code
    \/ /\ Len(entry) <= Len(code)
       /\ SubSeq(code, 1, Len(entry)) = entry
       /\ SingleLetter(entry) =>
             (Len(code) > 1 /\ SubSeq(code, 2, 2) \in Digits)

\* C16: in is_rule_selected a single-letter alphabetic select or ignore entry
\* matches a rule code only if the code equals it or a digit follows the
\* letter in the code: with select = [F], FBT001 is not selected and F401 is.
C16_SingleLetterNeedsDigit ==
    Returned("is_rule_selected") =>
        /\ ret.v => \E e \in ConfiguredSelected :
                       e = "ALL" \/ GuardedMatch(e, call.rule)
        /\ (~ret.v /\ \E e \in ConfiguredSelected : e = "ALL")
              => \E e \in ConfiguredIgnored : GuardedMatch(e, call.rule)

\* C17: _prefix_matches_code(prefix, code) is true exactly when code equals
\* prefix, or code starts with prefix and, if prefix is a single alphabetic
\* character, the next character of code exists, is a digit, and it is not
\* the case that prefix is E and code starts with E8; a prefix of several
\* characters matches by plain starts-with.
C17_PrefixMatchesCode ==
    Returned("_prefix_matches_code") =>
        LET prefix == call.prefix
            code == call.code
            starts == Len(prefix) <= Len(code) /\ SubSeq(code, 1, Len(prefix)) = prefix
        IN ret.v <=>
             \/ code = prefix
             \/ /\ starts
                /\ SingleLetter(prefix) =>
                      /\ Len(code) > 1
                      /\ SubSeq(code, 2, 2) \in Digits
                      /\ ~(prefix = "E" /\ Len(code) >= 2 /\ SubSeq(code, 1, 2) = "E8")

\* E against an E8 code: no match, though a digit follows the letter
C17_Witness ==
    /\ Returned("_prefix_matches_code")
    /\ call.prefix = "E"
    /\ call.code = "E81"
    /\ ~ret.v

(* C18 .. C20: sections of the exclude lists, fixable rules, per-file ignores. *)
\* the configuration d without the exclude list of `section`
DropExclude(d, section) ==
    IF section \in DOMAIN d
    THEN [d EXCEPT ![section] =
            Table([key \in DOMAIN d[section].v \ {"exclude"} |-> d[section].v[key]])]
    ELSE d

\* d without the exclude lists of the sections other than the one of `mode`
OtherSectionsDropped(d, mode) ==
    IF mode = "lint" THEN DropExclude(d, "format")
    ELSE IF mode = "format" THEN DropExclude(d, "lint")
    ELSE DropExclude(DropExclude(d, "lint"), "format")

\* C18: a pattern listed only under lint.exclude has no effect on
\* is_file_excluded(path, "format") or is_file_excluded(path, None), and one
\* listed only under format.exclude none on mode "lint" or None: the answer
\* is the answer of the configuration without the other section's exclude
\* list, for every path.
C18_OtherSectionNoEffect ==
    Returned("is_file_excluded") =>
        ret.v = is_file_excluded(OtherSectionsDropped(config.v, call.mode),
                                 call.file_path, call.mode)

\* a path under a directory that only lint.exclude lists: not excluded for
\* formatting, excluded for linting
C18_Witness ==
    /\ Returned("is_file_excluded")
    /\ call.mode = "format"
    /\ call.file_path = "lint_excluded/foo.py"
    /\ "lint" \in DOMAIN config.v
    /\ "exclude" \in DOMAIN config.v["lint"].v
    /\ ~ret.v
    /\ is_file_excluded(config.v, call.file_path, "lint")

ConfiguredUnfixable ==
    Configured("lint", "unfixable") \cup Configured("lint", "extend-unfixable")

ConfiguredFixable ==
    (IF "lint" \in DOMAIN config.v /\ "fixable" \in DOMAIN config.v["lint"].v
     THEN Configured("lint", "fixable")
     ELSE {"ALL"})
    \cup Configured("lint", "extend-fixable")

\* C19: is_rule_fixable(rule) is false whenever an entry of the unfixable
\* rules (unfixable, then extend-unfixable) equals the rule or is a prefix of
\* it, also when fixable is ALL; otherwise it is true exactly when an entry
\* of the fixable rules (default ALL) is ALL, equals the rule or is a prefix
\* of it.
C19_UnfixableThenFixable ==
    Returned("is_rule_fixable") =>
        ret.v = IF \E e \in ConfiguredUnfixable : EqualsOrPrefixes(e, call.rule)
                THEN FALSE
                ELSE \E e \in ConfiguredFixable :
                        e = "ALL" \/ EqualsOrPrefixes(e, call.rule)

\* fixable is ALL by default and an unfixable prefix of the rule wins
C19_Witness ==
    /\ Returned("is_rule_fixable")
    /\ call.rule = "E501"
    /\ "ALL" \in ConfiguredFixable
    /\ "E5" \in ConfiguredUnfixable
    /\ "E" \notin ConfiguredUnfixable
    /\ ~ret.v

\* the table `key` of [lint] in the juff.toml the configuration was loaded from
Written(key) ==
    LET data == fs[<<0, "juff.toml">>].data IN
    IF "lint" \in DOMAIN data /\ key \in DOMAIN data["lint"].v
    THEN data["lint"].v[key].v
    ELSE EmptyDict

\* C20: get_per_file_ignores() holds every pattern of lint.per-file-ignores
\* and of lint.extend-per-file-ignores and no other: for a pattern of both
\* tables the base codes followed by the extend codes, for a pattern of one
\* table exactly that table's codes.
C20_PerFileIgnoresMerged ==
    Returned("get_per_file_ignores") =>
        LET base == Written("per-file-ignores")
            extend == Written("extend-per-file-ignores")
        IN /\ DOMAIN ret.v = DOMAIN base \cup DOMAIN extend
           /\ \A pattern \in DOMAIN ret.v :
                 ret.v[pattern].v =
                     IF pattern \in DOMAIN base /\ pattern \in DOMAIN extend
                     THEN base[pattern].v \o extend[pattern].v
                     ELSE IF pattern \in DOMAIN base THEN base[pattern].v
                     ELSE extend[pattern].v

(* C21: the selected rules. *)
\* the list lint.<key> of the merged configuration, `default` when absent
LintList(key, default) ==
    IF "lint" \in DOMAIN config.v /\ key \in DOMAIN config.v["lint"].v
    THEN config.v["lint"].v[key].v
    ELSE default

\* C21: get_selected_rules() returns the lint.select list, or E, F, W when
\* select is absent, followed by the lint.extend-select entries in their
\* order; extend-select without select adds to the default E, F, W.
C21_SelectThenExtendSelect ==
    Returned("get_selected_rules") =>
        /\ ret.t = "list"
        /\ ret.v = LintList("select", <<"E", "F", "W">>)
                   \o LintList("extend-select", <<>>)

\* extend-select = [B] without select: E, F, W, B
C21_Witness ==
    /\ Returned("get_selected_rules")
    /\ "lint" \in DOMAIN config.v
    /\ "select" \notin DOMAIN config.v["lint"].v
    /\ "extend-select" \in DOMAIN config.v["lint"].v
    /\ ret.v = <<"E", "F", "W", "B">>

(* C22: the target version derived from requires-python. *)
\* the decimal text of the version components the fragments hold
Decimal(n) ==
    CASE n = 2 -> "2" [] n = 3 -> "3" [] n = 7 -> "7" [] n = 8 -> "8"
      [] n = 9 -> "9" [] n = 10 -> "10" [] n = 1 -> "1"

\* a written fragment that counts: one of the five operators, two components
Qualifies(fragment) ==
    /\ fragment.op \in {">=", ">", "==", "=", "~="}
    /\ Len(fragment.components) >= 2

Qualifying == {f \in Range(call.written) : Qualifies(f)}

Before(f, g) ==
    \/ f.components[1] < g.components[1]
    \/ f.components[1] = g.components[1] /\ f.components[2] < g.components[2]

\* the hint the written fragments give: None, or py<major><minor> of the
\* smallest pair
HintIs(value) ==
    IF Qualifying = {} THEN value.t = "None"
    ELSE /\ value.t = "str"
         /\ \E f \in Qualifying :
               /\ \A g \in Qualifying : ~Before(g, f)
               /\ value.v = "py" \o Decimal(f.components[1])
                                 \o Decimal(f.components[2])

C23_NoFileReadTwice ==
    \A i, j \in 1..Len(reads) : reads[i] = reads[j] => i = j

\* C24: the configuration produced by merging an ancestor into a document
\* never holds the key extend: once load() has followed an extend reference
\* the result has no extend key, also for chains that end in a cycle or in
\* a missing target.
C24_NoExtendKeyInResult ==
    (/\ pc = "returned" /\ call.op = "load" /\ Len(reads) >= 2
     /\ \A i \in 1..Len(reads) : fs[reads[i]].ok) =>
        "extend" \notin DOMAIN config.v

\* C25: _merge_configs is associative: for all configuration trees a, b, c
\* of scalars, lists and nested tables, also with a key that is a table in
\* one tree and no table in another, merge(merge(a, b), c) equals
\* merge(a, merge(b, c)).
C25_MergeAssociative ==
    (call.op = "_merge_configs" /\ pc = "returned") =>
        SameTree(ret.left, ret.right)

\* the document of the file p holds a non-empty extend reference
HasTarget(p) ==
    /\ fs[p].ok
    /\ "extend" \in DOMAIN DocAt(p)
    /\ DocAt(p)["extend"].v.name # ""

\* the extend reference written in `from`, looked up from directory dir
LookedUpFrom(dir, from) ==
    LET s == DocAt(from)["extend"].v IN
    IF s.abs THEN <<s.dir, s.name>>
    ELSE <<IF dir + s.dir < 0 THEN 0 ELSE dir + s.dir, s.name>>

\* C26: a relative extend path is resolved against the directory of the
\* document that holds it, at every level of the chain: every file read
\* after the entry is the target of the file read before it, looked up from
\* that file's directory, and the chain ends only where that target does not
\* exist or was read as a target already.
C26_RelativeToOwnDirectory ==
    /\ \A i \in 1..(Len(reads) - 1) :
          /\ HasTarget(reads[i])
          /\ reads[i + 1] = LookedUpFrom(reads[i][1], reads[i])
    /\ (pc = "returned" /\ call.op = "load" /\ Len(reads) > 0) =>
          LET last == reads[Len(reads)] IN
          HasTarget(last) =>
              \/ LookedUpFrom(last[1], last) \notin DOMAIN fs
              \/ \E i \in 2..Len(reads) : reads[i] = LookedUpFrom(last[1], last)

\* a chain of three files in which the second lies in another directory
\* than the entry and its relative reference, looked up from the entry's
\* directory, would name another path
C26_Witness ==
    /\ pc = "returned"
    /\ Len(reads) >= 3
    /\ reads[2][1] # reads[1][1]
    /\ ~DocAt(reads[2])["extend"].v.abs
    /\ reads[3] = LookedUpFrom(reads[2][1], reads[2])
    /\ reads[3] # LookedUpFrom(reads[1][1], reads[2])

\* C27: an empty pattern matches nothing: an exclude entry that is empty,
\* or empty once its trailing / is stripped, makes is_file_excluded true for
\* no path.
C27_EmptyPatternExcludesNothing ==
    Returned("is_file_excluded") =>
        LET patterns == get_exclude_patterns(config.v, call.mode) IN
        (\A i \in 1..Len(patterns) : RStrip(patterns[i], "/") = "") => ~ret.v

\* C28: when load() raises because an extend ancestor cannot be parsed, the
\* object keeps no configuration: the cached config stays unset and
\* project_root is not left at an ancestor's directory.
C28_FailedLoadKeepsNothing ==
    (pc = "raised" /\ Len(reads) >= 2) =>
        /\ config.t = "None"
        /\ project_root.t = "int" => project_root.v = reads[1][1]

\* C29: after load() returns normally, project_root is the directory of the
\* entry config file and config_path is the entry file, for every chain
\* (a call that follows a normal return serves the same object unchanged).
C29_RootAndPathOfEntry ==
    [][(pc # "returned" /\ pc' = "returned" /\ call'.op = "load") =>
          LET config_file ==
                  find_config_file(fs, config_path, call'.start_dir, cwd) IN
          config_file.t = "path" =>
              /\ project_root'.t = "int"
              /\ project_root'.v = config_file.v[1]
              /\ config_path'.t = "path"
              /\ config_path'.v = config_file.v]_vars

\* C30: a run of ensure_initialized that failed never leaves
\* is_initialized() true, also when an earlier run had succeeded.
C30_FailedRunNotInitialized ==
    (Returned("is_initialized") /\ pc = "raised") => ~ret.v

=============================================================================
